---------------------------- MODULE Spec2Model ----------------------------
(***************************************************************************)
(* Composite-widget interaction engine of styleless-ui:                    *)
(*   - the combobox controller of Select (useComboboxBase),                *)
(*   - the cyclic availability search (getAvailableItem, getAvailableTab), *)
(*   - the Menu / Menu.Sub activation hand-off (MenuBase, SubBase).        *)
(* Each widget has its own specification over its own variables; the       *)
(* variables of the other widgets stay at their initial values.            *)
(***************************************************************************)
EXTENDS Integers, Sequences, FiniteSets, TLC

VARIABLES
    \* ---- Select combobox controller (useComboboxBase) ----
    items,             \* getOptionElements(): the option elements, DOM order
    listOpenState,     \* prop listOpenState
    activeDescendant,  \* prop activeDescendant: element id, or Null
    selEvent,          \* the last keydown handled: key and the state it saw
    \* ---- the search functions applied to drawn inputs ----
    srchItems,         \* argument items of getAvailableItem
    srchTabs,          \* tabGroupCtx.tabs of getAvailableTab
    srchCall,          \* the last call and what it returned
    \* ---- Menu and its nested Menu.Sub (MenuBase), by nesting level ----
    rootOpen,          \* prop open of the root Menu
    menus,             \* per menu: the state and refs of MenuBase
    menuItems,         \* per menu: its item elements, DOM order
    attached,          \* the menus whose document listeners are attached,
                       \* in the order they were attached
    keepMounted,       \* prop keepMounted of the root, inherited
    dir,               \* useDirection(rootRef)
    \* ---- RadioGroup and its Radio members ----
    radios,            \* the Radio members, DOM order: props value, disabled
    rgValue,           \* radioGroupCtx.value: the selected value, or Null
    forcedTabability,  \* radioGroupCtx.forcedTabability: a value, or Null
    radioEvent,        \* the last event handled and the value it saw
    \* ---- CheckGroup, its Checkbox members, and a Checkbox on its own ----
    checkboxes,        \* the Checkbox members, DOM order: props value, disabled
    cgValue,           \* checkGroupCtx.value: the set of selected values
    cbProps,           \* props name and value of the Checkbox on its own
    cbChecked,         \* checkBase.checked of the Checkbox on its own
    cbMount,           \* the last first render of a member and its outcome
    checkEvent,        \* the last activation and the state it saw
    \* ---- TabGroup and Tooltip, each controlled and uncontrolled ----
    tgCtl,             \* the TabGroup rendered with the prop activeTab
    tgUnc,             \* the TabGroup rendered with defaultActiveTab
    ttCtl,             \* the Tooltip rendered with the prop open
    ttUnc,             \* the Tooltip rendered with defaultOpen
    behavior,          \* prop behavior of both Tooltips
    lastCalls,         \* the calls made by the last handler, in order
    \* ---- typeahead on a select-only combobox with its list open ----
    taItems,           \* getListItems(): the options, each with its text
    taActive,          \* activeDescendantElement: element id, or Null
    queryBuffer,       \* the characters typed since the buffer was cleared
    elapsed,           \* has the reset window passed since the last key
    \* ---- focus visibility of the two thumbs of a range slider ----
    thumbs,            \* per thumb: props, isFocusedVisible, isFocusVisibleRef
    thumbHistory,      \* per thumb: what its last focus and blur events saw
    \* ---- Snackbar ----
    snMounted,         \* the snackbar instance is mounted
    snProps,           \* its props: open, and whether duration and onDurationEnd are given
    timeoutRef,        \* timeoutRef.current: NaN or the id of the last timer
    previouslyFocusedElement, \* previouslyFocusedElement.current, or "none"
    snPending,         \* the ids of the timers that are scheduled and not yet fired
    snFired,           \* invocations of onDurationEnd in this open period
    snInvokedWhile,    \* what the snackbar was when onDurationEnd was last invoked
    changeOnMount,     \* whether useOnChange reports the initial value of open
    \* ---- keyboard navigation of the tabs of a TabGroup ----
    tkTabs,            \* tabGroupCtx.tabs: each tab detached, disabled or enabled
    tkFocus,           \* the index of the tab that is document.activeElement
    tkGroup,           \* the TabGroup's activeTab, controlled or not
    keyboardActivationBehavior,
    orientation,       \* the TabGroup's orientation
    tkDir,             \* the computed direction of the focused tab
    \* ---- searchable combobox: cache, filter and a Select.Group ----
    cbx,               \* useComboboxBase: props, state and refs; the owner's
                       \* filteredEntities; the memoized hidden of the group
    sinceReopen        \* the entities present at or after the last reopen

selVars  == <<items, listOpenState, activeDescendant, selEvent>>
srchVars == <<srchItems, srchTabs, srchCall>>
menuVars == <<rootOpen, menus, attached, menuItems, keepMounted, dir>>
radioVars == <<radios, rgValue, forcedTabability, radioEvent>>
checkVars == <<checkboxes, cgValue, cbProps, cbChecked, cbMount, checkEvent>>
ctlVars == <<tgCtl, tgUnc, ttCtl, ttUnc, behavior, lastCalls>>
taVars == <<taItems, taActive, queryBuffer, elapsed>>
fvVars == <<thumbs, thumbHistory>>
snVars == <<snMounted, snProps, timeoutRef, previouslyFocusedElement, snPending, snFired, snInvokedWhile, changeOnMount>>
tkVars == <<tkTabs, tkFocus, tkGroup, keyboardActivationBehavior, orientation, tkDir>>
cbxVars == <<cbx, sinceReopen>>

(***************************************************************************)
(* Bounds                                                                  *)
(***************************************************************************)
MaxItems == 3      \* option elements in a collection
MenuLen  == 2      \* items of one menu
MaxMembers == 3    \* members of a RadioGroup, a CheckGroup or a TabGroup
MaxQuery == 2      \* characters in the typeahead query buffer
Depth    == 4      \* nesting levels: the root Menu and the Menu.Subs below

(***************************************************************************)
(* Values                                                                  *)
(***************************************************************************)
Null == 0          \* null / undefined element
NaN  == -1         \* the result of x % 0; items[NaN] is undefined

ElementIds == 1 .. MaxItems

\* The attributes of an option element that the controller reads.
Flag(d, dh, ah, s) ==
    [disabled |-> d, dataHidden |-> dh, ariaHidden |-> ah, selected |-> s]

ItemKinds ==
    { Flag(FALSE, FALSE, FALSE, FALSE), Flag(FALSE, FALSE, FALSE, TRUE),
      Flag(TRUE,  FALSE, FALSE, FALSE), Flag(TRUE,  FALSE, FALSE, TRUE),
      Flag(FALSE, TRUE,  FALSE, FALSE), Flag(FALSE, FALSE, TRUE,  FALSE) }

Element(id, k) ==
    [id |-> id, disabled |-> k.disabled, dataHidden |-> k.dataHidden,
     ariaHidden |-> k.ariaHidden, selected |-> k.selected]

\* Collections: elements in DOM order, pairwise distinct (ids increasing).
RECURSIVE CollectionsFrom(_)
CollectionsFrom(lo) ==
    {<< >>} \cup
    UNION { { <<Element(id, k)>> \o rest : rest \in CollectionsFrom(id + 1) }
            : id \in lo .. MaxItems, k \in ItemKinds }

AllCollections == CollectionsFrom(1)

Ids(its) == { its[i].id : i \in 1 .. Len(its) }

(***************************************************************************)
(* Array helpers of the source language                                    *)
(***************************************************************************)
\* a % n of JavaScript for a >= 0 (NaN when n = 0)
JsMod(a, n) == IF n = 0 THEN NaN ELSE a % n

\* items.findIndex(item => item === el): 0-based, -1 when absent
FindIndex(its, el) ==
    IF \E i \in 1 .. Len(its) : its[i].id = el
    THEN (CHOOSE i \in 1 .. Len(its) : its[i].id = el) - 1
    ELSE -1

\* items[idx] for a 0-based idx; undefined when idx is out of range
Defined(its, idx) == idx \in 0 .. Len(its) - 1

At(its, idx) == its[idx + 1]

(***************************************************************************)
(* getAvailableItem / getInitialAvailableItem (Select controller)          *)
(***************************************************************************)
\* prevIdxs.includes(idx)
includesIdxLastOnly(prevIdxs, idx) ==
    Len(prevIdxs) > 0 /\ prevIdxs[Len(prevIdxs)] = idx

\* a variant of includesIdx: no index counts as tried
includesIdxNever(prevIdxs, idx) == FALSE

includesIdx(prevIdxs, idx) ==
    \E k \in 1 .. Len(prevIdxs) : prevIdxs[k] = idx

\* the condition under which an element is skipped
isUnavailableDisabledOnly(item) == item.disabled

isUnavailable(item) ==
    item.disabled \/ item.dataHidden \/ item.ariaHidden \/ item.dataHidden

\* the index tried after idx
stepIdxNoWrap(idx, forward, len) ==
    IF forward THEN idx + 1 ELSE idx - 1

stepIdx(idx, forward, len) ==
    JsMod(IF forward THEN idx + 1 ELSE idx - 1 + len, len)

\* A search that has recursed this deep never returns.
SearchFuel(len) == 2 * len + 2

\* The recursion of getAvailableItem.  The result is the element found
\* (its id, or Null), with the indices whose element was examined.
RECURSIVE getAvailableItemRec(_, _, _, _)
getAvailableItemRec(its, idx, forward, prevIdxs) ==
    IF Len(prevIdxs) > SearchFuel(Len(its))
    THEN [item |-> Null, examined |-> prevIdxs, diverged |-> TRUE]
    ELSE IF ~Defined(its, idx)
    THEN [item |-> Null, examined |-> prevIdxs, diverged |-> FALSE]
    ELSE IF includesIdx(prevIdxs, idx)
    THEN [item |-> Null, examined |-> prevIdxs, diverged |-> FALSE]
    ELSE IF isUnavailable(At(its, idx))
    THEN getAvailableItemRec(its, stepIdx(idx, forward, Len(its)), forward,
                             Append(prevIdxs, idx))
    ELSE [item |-> At(its, idx).id, examined |-> Append(prevIdxs, idx),
          diverged |-> FALSE]

getAvailableItem(its, idx, forward) ==
    getAvailableItemRec(its, idx, forward, << >>)

isSelectedAvailable(item) == ~isUnavailable(item) /\ item.selected

\* items.filter(...) of getInitialAvailableItem
selectedItems(its) == SelectSeq(its, isSelectedAvailable)

getInitialAvailableItem(its, forward) ==
    getAvailableItem(
        IF Len(selectedItems(its)) > 0 THEN selectedItems(its) ELSE its,
        0, forward)


(***************************************************************************)
(* Select combobox controller: handleKeyDown                               *)
(***************************************************************************)
NoEvent == [key |-> "none", wasOpen |-> FALSE, prevActive |-> Null]

KeyEvent(key) ==
    [key |-> key, wasOpen |-> listOpenState, prevActive |-> activeDescendant]

\* case DOWN with the list open: the element that becomes active
downNextIdxNoWrap(its, active) == FindIndex(its, active) + 1

downNextIdx(its, active) == JsMod(FindIndex(its, active) + 1, Len(its))

downNextActive(its, active) ==
    IF active # Null
    THEN getAvailableItem(its, downNextIdx(its, active), TRUE).item
    ELSE getInitialAvailableItem(its, TRUE).item

\* case UP with the list open
upNextIdx(its, active) ==
    IF FindIndex(its, active) = -1 THEN 0
    ELSE JsMod(FindIndex(its, active) - 1 + Len(its), Len(its))

upNextActive(its, active) ==
    IF active # Null
    THEN getAvailableItem(its, upNextIdx(its, active), FALSE).item
    ELSE getInitialAvailableItem(its, FALSE).item

\* case HOME / case END with the list open
homeNextActive(its) == getAvailableItem(its, 0, TRUE).item

\* a variant of endNextActive: the search starts at the first element
endNextActiveFromFirst(its) == getAvailableItem(its, 0, FALSE).item

endNextActive(its) == getAvailableItem(its, Len(its) - 1, FALSE).item

\* getOptionElements(): the option elements are in the document while the
\* list is open
getOptionElements(open) == IF open THEN items ELSE << >>

\* a variant of closedListItems: the collection is queried before the list
\* is open
closedListItemsBeforeOpen == getOptionElements(listOpenState)

\* case DOWN / case UP with the list closed:
\* flushSync(() => onListOpenChange(true)); items = getOptionElements()
closedListItems == getOptionElements(TRUE)

KeyDownDOWN ==
    /\ selEvent' = KeyEvent("DOWN")
    /\ listOpenState' = TRUE
    /\ activeDescendant' =
          IF ~listOpenState
          THEN getInitialAvailableItem(closedListItems, TRUE).item
          ELSE downNextActive(items, activeDescendant)
    /\ UNCHANGED items

KeyDownUP ==
    /\ selEvent' = KeyEvent("UP")
    /\ listOpenState' = TRUE
    /\ activeDescendant' =
          IF ~listOpenState
          THEN getInitialAvailableItem(closedListItems, TRUE).item
          ELSE upNextActive(items, activeDescendant)
    /\ UNCHANGED items

KeyDownHOME ==
    /\ selEvent' = KeyEvent("HOME")
    /\ activeDescendant' =
          IF ~listOpenState THEN activeDescendant ELSE homeNextActive(items)
    /\ UNCHANGED <<items, listOpenState>>

KeyDownEND ==
    /\ selEvent' = KeyEvent("END")
    /\ activeDescendant' =
          IF ~listOpenState THEN activeDescendant ELSE endNextActive(items)
    /\ UNCHANGED <<items, listOpenState>>

KeyDownTAB ==
    /\ selEvent' = KeyEvent("TAB")
    /\ listOpenState' = FALSE
    /\ UNCHANGED <<items, activeDescendant>>

\* The owner renders the list with one more option, or one less.
InsertAt(its, el) ==
    SelectSeq(its, LAMBDA x : x.id < el.id) \o <<el>> \o
    SelectSeq(its, LAMBDA x : x.id > el.id)

AddOption ==
    /\ \E id \in ElementIds \ Ids(items), k \in ItemKinds :
          items' = InsertAt(items, Element(id, k))
    /\ selEvent' = NoEvent
    /\ UNCHANGED <<listOpenState, activeDescendant>>

RemoveOption ==
    /\ \E id \in Ids(items) :
          items' = SelectSeq(items, LAMBDA x : x.id # id)
    /\ selEvent' = NoEvent
    /\ UNCHANGED <<listOpenState, activeDescendant>>

SelInit ==
    /\ items \in AllCollections
    /\ listOpenState = FALSE
    /\ activeDescendant = Null
    /\ selEvent = NoEvent

SelIdle ==
    /\ items = << >>
    /\ listOpenState = FALSE
    /\ activeDescendant = Null
    /\ selEvent = NoEvent

(***************************************************************************)
(* getAvailableTab (Tab keydown handler)                                   *)
(***************************************************************************)
\* a tab ref: current is null ("detached"), a disabled button, or a button
TabKinds == {"detached", "disabled", "enabled"}

AllTabLists == UNION { [1 .. n -> TabKinds] : n \in 1 .. MaxItems }

tabUnavailable(tabRef) == tabRef = "detached" \/ tabRef = "disabled"

\* The result is the index of the tab ref returned (0-based; NaN for null).
RECURSIVE getAvailableTabRec(_, _, _, _)
getAvailableTabRec(tabs, idx, forward, prevIdxs) ==
    IF Len(prevIdxs) > SearchFuel(Len(tabs))
    THEN [tab |-> NaN, examined |-> prevIdxs, diverged |-> TRUE]
    ELSE IF includesIdx(prevIdxs, idx)
    THEN [tab |-> NaN, examined |-> prevIdxs, diverged |-> FALSE]
    ELSE IF tabUnavailable(tabs[idx + 1])
    THEN getAvailableTabRec(tabs, stepIdx(idx, forward, Len(tabs)), forward,
                            Append(prevIdxs, idx))
    ELSE [tab |-> idx, examined |-> Append(prevIdxs, idx),
          diverged |-> FALSE]

getAvailableTab(tabs, idx, forward) ==
    getAvailableTabRec(tabs, idx, forward, << >>)

(***************************************************************************)
(* The searches applied to drawn inputs                                    *)
(***************************************************************************)
NoCall == [fn |-> "none", idx |-> 0, forward |-> TRUE,
           item |-> Null, examined |-> << >>, diverged |-> FALSE]

Call(fn, idx, forward, r, found) ==
    [fn |-> fn, idx |-> idx, forward |-> forward,
     item |-> found, examined |-> r.examined, diverged |-> r.diverged]

CallGetAvailableItem ==
    /\ \E idx \in 0 .. Len(srchItems) - 1, forward \in BOOLEAN :
          LET r == getAvailableItem(srchItems, idx, forward)
          IN  srchCall' = Call("getAvailableItem", idx, forward, r, r.item)
    /\ UNCHANGED <<srchItems, srchTabs>>

CallGetInitialAvailableItem ==
    /\ \E forward \in BOOLEAN :
          LET r == getInitialAvailableItem(srchItems, forward)
          IN  srchCall' = Call("getInitialAvailableItem", 0, forward, r, r.item)
    /\ UNCHANGED <<srchItems, srchTabs>>

CallGetAvailableTab ==
    /\ \E idx \in 0 .. Len(srchTabs) - 1, forward \in BOOLEAN :
          LET r == getAvailableTab(srchTabs, idx, forward)
          IN  srchCall' = Call("getAvailableTab", idx, forward, r,
                               IF r.tab = NaN THEN Null ELSE r.tab + 1)
    /\ UNCHANGED <<srchItems, srchTabs>>

SrchInit ==
    /\ \/ srchItems \in AllCollections /\ srchTabs = <<"enabled">>
       \/ srchItems = << >> /\ srchTabs \in AllTabLists
    /\ srchCall = NoCall

SrchIdle ==
    /\ srchItems = << >>
    /\ srchTabs = <<"enabled">>
    /\ srchCall = NoCall

(***************************************************************************)
(* Menu / Menu.Sub: state of MenuBase                                      *)
(***************************************************************************)
Menus == 1 .. Depth          \* 1 is the root; m + 1 is the Menu.Sub of m

Detached == -2               \* an element that is no longer in the document

\* The item of a menu that carries aria-haspopup (it renders the Menu.Sub).
TriggerPos == MenuLen

MenuKinds ==
    { Flag(FALSE, FALSE, FALSE, FALSE), Flag(TRUE, FALSE, FALSE, FALSE),
      Flag(FALSE, TRUE, FALSE, FALSE) }

MenuKindChoices == [1 .. MenuLen -> MenuKinds]

MenuCollection(k) == [i \in 1 .. MenuLen |-> Element(i, k[i])]

\* The root renders the same kinds of item as its sub-menus, except that
\* its sub-menu trigger is available.
RootCollection(k) ==
    MenuCollection([k EXCEPT ![TriggerPos] = Flag(FALSE, FALSE, FALSE, FALSE)])

\* useState / useRef initial values of a MenuBase mounted with open = o
Mounted(o) ==
    [activeElement |-> Null, activeSubTrigger |-> Null, isMenuActive |-> o,
     shouldActivateFirstSubItemRef |-> FALSE, initialFocusRef |-> FALSE]

\* nextActive.hasAttribute("aria-haspopup")
hasPopup(m, el) == m < Depth /\ el = TriggerPos

\* menuItemCtx.isSubMenuOpen() of the item that renders menu m
isSubMenuOpen(ms, m) == ms[m - 1].activeSubTrigger = TriggerPos

\* prop open of menu m
isOpen(ms, ro, m) == IF m = 1 THEN ro ELSE isSubMenuOpen(ms, m)

\* the document listeners of menu m are attached
listening(ms, ro, m) == isOpen(ms, ro, m) /\ ms[m].isMenuActive

\* getAvailableItem of Menu/utils
menuGetAvailableItem(its, idx, forward) == getAvailableItem(its, idx, forward).item

(***************************************************************************)
(* Menu: the keydown listener                                              *)
(***************************************************************************)
openSubKey(d)  == IF d = "rtl" THEN "ArrowLeft" ELSE "ArrowRight"
closeSubKey(d) == IF d = "rtl" THEN "ArrowRight" ELSE "ArrowLeft"

MenuKeys == {"ArrowUp", "ArrowDown", "ArrowLeft", "ArrowRight",
             "Enter", " ", "Escape"}

\* openSubMenu(element)
openSubMenu(ms, m, el) ==
    [ms EXCEPT ![m].activeSubTrigger = el,
               ![m].isMenuActive = FALSE,
               ![m].shouldActivateFirstSubItemRef = TRUE]

\* context.setActiveElement(node) of menu m
ctxSetActiveElement(ms, m, node) ==
    LET a == IF m > 1 THEN [ms EXCEPT ![m - 1].isMenuActive = FALSE] ELSE ms
    IN  [a EXCEPT ![m].activeElement = node, ![m].activeSubTrigger = Null]

\* the closeSubCase branch of menu m; ms0 is the state the handler closes over
closeSub(ms0, ms, m) ==
    LET a == [ms EXCEPT ![m - 1].shouldActivateFirstSubItemRef = FALSE]
        b == ctxSetActiveElement(a, m - 1, ms0[m - 1].activeSubTrigger)
    IN  [b EXCEPT ![m - 1].isMenuActive = TRUE,
                  ![m - 1].activeSubTrigger = Null]

\* goNextCase / goPrevCase: the element that becomes active
menuNextIdx(its, active) == JsMod(FindIndex(its, active) + 1, Len(its))

menuPrevIdx(its, active) ==
    JsMod((IF FindIndex(its, active) = -1 THEN 0 ELSE FindIndex(its, active))
            - 1 + Len(its), Len(its))

menuNextActive(its, active, key) ==
    IF key = "ArrowDown"
    THEN menuGetAvailableItem(its, menuNextIdx(its, active), TRUE)
    ELSE IF key = "ArrowUp"
    THEN menuGetAvailableItem(its, menuPrevIdx(its, active), FALSE)
    ELSE active

\* the part of the handler after the escape and select cases
arrowCase(ms0, ms, its, d, m, key) ==
    IF key \in {"ArrowUp", "ArrowDown"} /\ m > 1 /\ ms0[m - 1].isMenuActive
    THEN [ms EXCEPT ![m - 1].activeSubTrigger = Null]
    ELSE LET nextActive == menuNextActive(its[m], ms0[m].activeElement, key)
             a == [ms EXCEPT ![m].activeElement = nextActive]
         IN  IF hasPopup(m, nextActive) /\ key = openSubKey(d)
             THEN openSubMenu(a, m, nextActive)
             ELSE IF m > 1 /\ key = closeSubKey(d)
             THEN closeSub(ms0, a, m)
             ELSE a

selectCase(ms0, ms, m) ==
    IF ms0[m].activeElement = Null THEN ms
    ELSE IF hasPopup(m, ms0[m].activeElement)
    THEN openSubMenu(ms, m, ms0[m].activeElement)
    ELSE ms

\* The keydown listener of menu m.  State setters act on ms; the values the
\* handler reads are those of the last render, ms0.
handleMenuKeyDown(ms0, ms, its, d, m, key) ==
    IF key = "Escape" THEN ms
    ELSE IF key \in {"Enter", " "} THEN selectCase(ms0, ms, m)
    ELSE arrowCase(ms0, ms, its, d, m, key)

\* onEscape?.(event) ?? menuCtx?.onEscape?.(event): the root is given the
\* callback, SubBase passes none on.
hasOwnCallback(m) == m = 1

reachesRootCallback(m) ==
    hasOwnCallback(m) \/ (m > 1 /\ hasOwnCallback(m - 1))

(***************************************************************************)
(* Menu: the document click listener                                       *)
(***************************************************************************)
\* contains(rootRef.current, event.target) for a target inside the root
\* element of menu t (0: outside every menu); nested tells whether the root
\* element of a Menu.Sub lies inside the root element of its ancestors.
containsTarget(m, t, nested) == t = m \/ (t > m /\ nested)

handleMenuClick(ms, m, t, nested) ==
    IF containsTarget(m, t, nested) THEN ms
    ELSE [ms EXCEPT ![m].activeElement = Null, ![m].activeSubTrigger = Null]

(***************************************************************************)
(* Menu: rendering, the ref callback and the open effect                   *)
(***************************************************************************)
\* Without keepMounted the content of a closed menu is not rendered: its
\* items are removed from the document and its Menu.Sub is unmounted.
RECURSIVE unmountFrom(_, _, _)
unmountFrom(ms, ro, m) ==
    IF m > Depth THEN ms
    ELSE IF isOpen(ms, ro, m - 1) THEN unmountFrom(ms, ro, m + 1)
    ELSE unmountFrom(
            [ms EXCEPT ![m] = Mounted(FALSE),
                       ![m - 1].activeSubTrigger =
                            IF @ = Null THEN Null ELSE Detached],
            ro, m + 1)

unmountClosed(ms, ro, km) == IF km THEN ms ELSE unmountFrom(ms, ro, 2)

\* the lowest menu whose state changed (Depth + 1 if none did)
renderedState(r) == <<r.activeElement, r.activeSubTrigger, r.isMenuActive>>

lowestChanged(ms0, ms1) ==
    LET ch == { m \in Menus : renderedState(ms0[m]) # renderedState(ms1[m]) }
    IN  IF ch = {} THEN Depth + 1
        ELSE CHOOSE m \in ch : \A k \in ch : m <= k

\* refCallback of menu m
refCallbackNoGuard(ms, ro, its, m) ==
    IF m = 1 \/ ~isOpen(ms, ro, m) THEN ms[m]
    ELSE IF ~ms[m - 1].shouldActivateFirstSubItemRef THEN ms[m]
    ELSE IF menuGetAvailableItem(its[m], 0, TRUE) = Null THEN ms[m]
    ELSE [ms[m] EXCEPT !.activeElement = menuGetAvailableItem(its[m], 0, TRUE),
                       !.initialFocusRef = TRUE]

refCallback(ms, ro, its, m) ==
    IF m = 1 \/ ~isOpen(ms, ro, m) THEN ms[m]
    ELSE IF ~ms[m - 1].shouldActivateFirstSubItemRef THEN ms[m]
    ELSE IF ms[m].initialFocusRef THEN ms[m]
    ELSE IF menuGetAvailableItem(its[m], 0, TRUE) = Null THEN ms[m]
    ELSE [ms[m] EXCEPT !.activeElement = menuGetAvailableItem(its[m], 0, TRUE),
                       !.initialFocusRef = TRUE]

\* the effect with dependencies [open, menuCtx] of menu m, applied to r
openEffect(r, o) ==
    IF ~o
    THEN [r EXCEPT !.activeElement = Null, !.isMenuActive = FALSE,
                   !.initialFocusRef = FALSE]
    ELSE [r EXCEPT !.isMenuActive = TRUE]

\* One commit: the menus from `from` downwards render again.  The ref
\* callback of each runs; the open effect runs where a dependency changed:
\* menuCtx is a new object whenever the parent rendered, open of the root
\* changes only with the prop.
committed(ms, ro, its, from, openChanged, m) ==
    LET r == IF m >= from THEN refCallback(ms, ro, its, m) ELSE ms[m]
    IN  IF m > from \/ (m = 1 /\ openChanged)
        THEN openEffect(r, isOpen(ms, ro, m))
        ELSE r

RECURSIVE commitFrom(_, _, _, _, _, _, _)
commitFrom(ms, acc, ro, its, from, openChanged, m) ==
    IF m > Depth THEN acc
    ELSE commitFrom(ms,
            [acc EXCEPT ![m] = committed(ms, ro, its, from, openChanged, m)],
            ro, its, from, openChanged, m + 1)

commit(ms, ro, its, from, openChanged) ==
    commitFrom(ms, ms, ro, its, from, openChanged, 1)

\* Rendering until no state changes: a second commit changes nothing,
\* because the effect and the ref callback are idempotent.
settle(ms, ro, its, km, from, openChanged) ==
    LET a == unmountClosed(ms, ro, km)
        b == commit(a, ro, its, from, openChanged)
    IN  commit(b, ro, its, lowestChanged(a, b), FALSE)

(***************************************************************************)
(* Menu: events                                                            *)
(***************************************************************************)
\* the menus of S, deepest first
RECURSIVE deepestFirst(_)
deepestFirst(S) ==
    IF S = {} THEN << >>
    ELSE LET x == CHOOSE m \in S : \A k \in S : m >= k
         IN  <<x>> \o deepestFirst(S \ {x})

Range(seq) == { seq[i] : i \in 1 .. Len(seq) }

\* useEventListener(..., open && isMenuActive): after a commit the menus
\* that no longer listen are detached, and those that start to listen are
\* attached by their effects, which run child first.
attach(att, ms, ro) ==
    SelectSeq(att, LAMBDA m : listening(ms, ro, m)) \o
    deepestFirst({ m \in Menus : listening(ms, ro, m) } \ Range(att))

RECURSIVE runKeyDown(_, _, _, _, _, _)
runKeyDown(ms0, ms, its, d, order, key) ==
    IF order = << >> THEN ms
    ELSE runKeyDown(ms0, handleMenuKeyDown(ms0, ms, its, d, Head(order), key),
                    its, d, Tail(order), key)

RECURSIVE runClick(_, _, _, _)
runClick(ms, order, t, nested) ==
    IF order = << >> THEN ms
    ELSE runClick(handleMenuClick(ms, Head(order), t, nested),
                  Tail(order), t, nested)

Listening == Range(attached)

\* the state after a keydown event: every attached listener has run on the
\* state of the last render, and the resulting updates have been rendered
keyDownResult(key) ==
    LET after == runKeyDown(menus, menus, menuItems, dir, attached, key)
    IN  settle(after, rootOpen, menuItems, keepMounted,
               lowestChanged(menus, after), FALSE)

\* the keydown listeners that go past
\* `if (!shouldAllowKeyboardNavigation) return` when the root is given
\* shouldActivateKeyboardNavigation = flag; a Menu.Sub has a prop of its
\* own, true by default
keyboardListeners(flag) ==
    IF flag THEN attached ELSE SelectSeq(attached, LAMBDA m : m # 1)

\* the state after a keydown event under that prop of the root
keyDownResultWith(flag, key) ==
    LET after == runKeyDown(menus, menus, menuItems, dir,
                            keyboardListeners(flag), key)
    IN  settle(after, rootOpen, menuItems, keepMounted,
               lowestChanged(menus, after), FALSE)

\* escapeCase under that prop: some listener calls the root's onEscape
onEscapeInvokedWith(flag) ==
    \E m \in Range(keyboardListeners(flag)) : reachesRootCallback(m)

\* escapeCase: some attached listener calls the root's onEscape
onEscapeInvoked == \E m \in Listening : reachesRootCallback(m)

\* a keydown event on the document
MenuKeyDown ==
    /\ Listening # {}
    /\ \E key \in MenuKeys :
         /\ menus' = keyDownResult(key)
         /\ attached' = attach(attached, menus', rootOpen)
    /\ UNCHANGED <<rootOpen, menuItems, keepMounted, dir>>

\* the menus whose root element is displayed
Displayed(m) == \A k \in 1 .. m : isOpen(menus, rootOpen, k)

ClickTargets == {0} \cup { m \in Menus : Displayed(m) }

\* the state after a click event
clickResult(t, nested) ==
    LET after == runClick(menus, attached, t, nested)
    IN  settle(after, rootOpen, menuItems, keepMounted,
               lowestChanged(menus, after), FALSE)

\* some attached listener calls the root's onOutsideClick
onOutsideClickInvoked(t, nested) ==
    \E m \in Listening :
        ~containsTarget(m, t, nested) /\ reachesRootCallback(m)

\* whether a Menu.Sub is rendered inside the root element of its ancestors
\* is the positioning layer's choice; it matters to a click in a menu below
\* a listening one
Nestings(t) == IF \E m \in Listening : t > m THEN BOOLEAN ELSE {TRUE}

\* a click on the document, inside the root element of menu t or outside all
MenuClick ==
    /\ Listening # {}
    /\ \E t \in ClickTargets : \E nested \in Nestings(t) :
         /\ menus' = clickResult(t, nested)
         /\ attached' = attach(attached, menus', rootOpen)
    /\ UNCHANGED <<rootOpen, menuItems, keepMounted, dir>>

\* the owner renders the root with open = true
OpenRoot ==
    /\ ~rootOpen
    /\ rootOpen' = TRUE
    /\ menus' = settle(menus, TRUE, menuItems, keepMounted, 1, TRUE)
    /\ attached' = attach(attached, menus', TRUE)
    /\ UNCHANGED <<menuItems, keepMounted, dir>>

\* the owner renders the root with open = false
CloseRoot ==
    /\ rootOpen
    /\ rootOpen' = FALSE
    /\ menus' = settle(menus, FALSE, menuItems, keepMounted, 1, TRUE)
    /\ attached' = attach(attached, menus', FALSE)
    /\ UNCHANGED <<menuItems, keepMounted, dir>>

\* the state after the owner rendered the root again with the same props
renderResult == settle(menus, rootOpen, menuItems, keepMounted, 1, FALSE)

\* the owner renders the root again with the same props
ReRender ==
    /\ menus' = renderResult
    /\ attached' = attach(attached, menus', rootOpen)
    /\ UNCHANGED <<rootOpen, menuItems, keepMounted, dir>>

MnInit ==
    /\ rootOpen \in BOOLEAN
    /\ keepMounted \in BOOLEAN
    /\ dir \in {"ltr", "rtl"}
    /\ \E k \in MenuKindChoices :
         menuItems = [m \in Menus |->
                        IF m = 1 THEN RootCollection(k) ELSE MenuCollection(k)]
    /\ menus = [m \in Menus |->
                  IF m = 1 THEN Mounted(rootOpen) ELSE Mounted(FALSE)]
    /\ attached = IF rootOpen THEN <<1>> ELSE << >>

MnIdle ==
    /\ rootOpen = FALSE
    /\ keepMounted = FALSE
    /\ dir = "ltr"
    /\ menuItems = [m \in Menus |-> << >>]
    /\ menus = [m \in Menus |-> Mounted(FALSE)]
    /\ attached = << >>

(***************************************************************************)
(* RadioGroup and Radio                                                    *)
(*                                                                         *)
(* A Radio is a record of its props value and disabled; values are the     *)
(* non-empty strings 1 .. MaxMembers and Null is the group's empty value.   *)
(* overrideTabIndex is left undefined on every member.                     *)
(***************************************************************************)
RadioValues == 1 .. MaxMembers

Radio == [value : RadioValues, disabled : BOOLEAN]

\* the groups: one to MaxMembers members with distinct values
RadioLists ==
    UNION { { rs \in [1 .. n -> Radio] : \A i \in 1 .. n : rs[i].value = i } :
            n \in 1 .. MaxMembers }

\* validTabs?.[0]?.getAttribute("data-entity") ?? null
firstValid(rs) ==
    LET valid == { i \in DOMAIN rs : ~rs[i].disabled }
    IN  IF valid = {} THEN Null
        ELSE rs[CHOOSE i \in valid : \A j \in valid : i <= j].value

\* the effect on [value] of the group: with a value, the forced tab stop is
\* dropped; without one, it is the first member that is not disabled
forcedTababilityEffect(prev, value, rs) ==
    IF value # Null
    THEN (IF prev # Null THEN Null ELSE prev)
    ELSE firstValid(rs)

\* a variant of calcTabIndex: every enabled member of a group is a tab stop
calcTabIndexNoSelected(radio, inGroup, ctxValue, ctxForced) ==
    IF radio.disabled THEN -1 ELSE 0

\* Radio.calcTabIndex
calcTabIndex(radio, inGroup, ctxValue, ctxForced) ==
    IF radio.disabled THEN -1
    ELSE IF ~inGroup THEN 0
    ELSE IF ctxForced # Null /\ ctxForced = radio.value THEN 0
    ELSE IF ~(ctxValue = radio.value) THEN -1
    ELSE 0

RadioGroupState == [value : RadioValues \cup {Null},
                    forcedTabability : RadioValues \cup {Null}]

\* the members of the group whose tabIndex is 0
tabStops(rs, g) ==
    { i \in DOMAIN rs : calcTabIndex(rs[i], TRUE, g.value, g.forcedTabability) = 0 }

\* useCheckBase with selectMode "single" and togglable false: activating a
\* member that is not disabled and not checked selects its value; the group
\* renders with the new value and its effect runs
radioActivate(rs, g, i) ==
    IF rs[i].disabled \/ g.value = rs[i].value THEN g
    ELSE [value |-> rs[i].value,
          forcedTabability |->
              forcedTababilityEffect(g.forcedTabability, rs[i].value, rs)]

radioGroup == [value |-> rgValue, forcedTabability |-> forcedTabability]

NoRadioEvent == [kind |-> "none", member |-> 0, saw |-> Null]

\* a click (or Space) on the i-th Radio
RadioActivate ==
    \E i \in DOMAIN radios :
        LET g == radioActivate(radios, radioGroup, i)
        IN  /\ ~radios[i].disabled
            /\ rgValue' = g.value
            /\ forcedTabability' = g.forcedTabability
            /\ radioEvent' = [kind |-> "activate", member |-> i, saw |-> rgValue]
            /\ UNCHANGED radios

\* the owner renders the i-th Radio with the other value of disabled; the
\* group's value is the same, so its effect does not run
RadioSetDisabled ==
    \E i \in DOMAIN radios :
        /\ radios' = [radios EXCEPT ![i].disabled = ~@]
        /\ radioEvent' = [kind |-> "disabled", member |-> i, saw |-> rgValue]
        /\ UNCHANGED <<rgValue, forcedTabability>>

\* the group is mounted with its members and a defaultValue, then its
\* effect has run once
RgInit ==
    /\ radios \in RadioLists
    /\ rgValue \in {Null} \cup { radios[i].value : i \in DOMAIN radios }
    /\ forcedTabability = forcedTababilityEffect(Null, rgValue, radios)
    /\ radioEvent = NoRadioEvent

RgIdle ==
    /\ radios = << >>
    /\ rgValue = Null
    /\ forcedTabability = Null
    /\ radioEvent = NoRadioEvent

(***************************************************************************)
(* CheckGroup and Checkbox                                                 *)
(*                                                                         *)
(* The members of a CheckGroup are records of their props value and        *)
(* disabled; the group's value is the set of the selected values.  A       *)
(* Checkbox outside a group has the checked state "true", "false" or       *)
(* "indeterminate" and the props name and value.                           *)
(***************************************************************************)
CheckedStates == {"true", "false", "indeterminate"}

\* a prop value?: string is absent (undefined), the empty string or given
ValueKinds == {"absent", "empty", "given"}

CheckLists ==
    UNION { { cs \in [1 .. n -> Radio] : \A i \in 1 .. n : cs[i].value = i } :
            n \in 1 .. MaxMembers }

\* a variant of checkboxMode: the Checkbox is not togglable
checkboxModeNotTogglable == [selectMode |-> "multiple", togglable |-> FALSE]

\* the arguments selectMode and togglable of Checkbox's call of useCheckBase
checkboxMode == [selectMode |-> "multiple", togglable |-> TRUE]

\* useCheckBase in a group: the checked state of a member is membership of
\* its value in the group's value
groupChecked(sel, v) == v \in sel

\* useCheckBase in a group: activating a member computes its new checked
\* state (the opposite when togglable, else true) and the group's onChange
\* adds the value to or removes it from the selection ("multiple") or
\* replaces the selection ("single")
groupActivate(mode, sel, c) ==
    LET newChecked == IF mode.togglable THEN ~groupChecked(sel, c.value)
                      ELSE TRUE
    IN  IF c.disabled THEN sel
        ELSE IF mode.selectMode = "single"
             THEN (IF newChecked THEN {c.value} ELSE {})
        ELSE IF newChecked THEN sel \cup {c.value}
        ELSE sel \ {c.value}

\* useCheckBase outside a group: an indeterminate Checkbox becomes checked,
\* any other takes the opposite state when togglable, else true
checkActivate(mode, checked) ==
    IF checked = "indeterminate" THEN "true"
    ELSE IF mode.togglable THEN (IF checked = "true" THEN "false" ELSE "true")
    ELSE "true"

\* a variant of isIndeterminated: the tri-state is not told apart
isIndeterminatedNever(checked) == FALSE

\* const isIndeterminated = checkBase.checked === "indeterminate"
isIndeterminated(checked) == checked = "indeterminate"

\* const isChecked = isIndeterminated ? false : checkBase.checked
isChecked(checked) ==
    IF isIndeterminated(checked) THEN FALSE ELSE checked # "false"

\* renderHiddenInput: is the hidden input rendered
\* (!name || !value || !isChecked -> null)
renderHiddenInput(props, checked) ==
    ~(~props.name \/ props.value # "given" \/ ~isChecked(checked))

\* aria-checked={isIndeterminated ? "mixed" : isChecked}
ariaChecked(checked) ==
    IF isIndeterminated(checked) THEN "mixed"
    ELSE IF isChecked(checked) THEN "true" ELSE "false"

\* RadioBase: throw new SystemError when in a RadioGroup without a value
radioSetup(inGroup, value) ==
    IF inGroup /\ value = "absent" THEN "SystemError" ELSE "rendered"

\* CheckboxBase: throw new SystemError when in a CheckGroup without a value
checkboxSetup(inGroup, value) ==
    IF inGroup /\ value = "absent" THEN "SystemError" ELSE "rendered"

\* the props a Checkbox should not be given inside a CheckGroup: name,
\* checked and defaultChecked, each absent (undefined) or given
MemberProps ==
    [name : {"absent", "member"}, checked : {"absent", "true", "false"},
     defaultChecked : {"absent", "true", "false"}]

NoMemberProps ==
    [name |-> "absent", checked |-> "absent", defaultChecked |-> "absent"]

\* the warnings CheckboxBase logs for a Checkbox inside a CheckGroup
memberWarnings(props) ==
    (IF props.name # "absent" THEN {"name"} ELSE {})
        \cup (IF props.checked # "absent" \/ props.defaultChecked # "absent"
              THEN {"checked"} ELSE {})

\* const name = checkGroupCtx?.name != null ? checkGroupCtx.name : nameProp
effectiveName(ctxName, nameProp) ==
    IF ctxName # "absent" THEN ctxName ELSE nameProp

\* the render of the member c of a CheckGroup whose name is ctxName and
\* whose value is sel: the warnings logged, the checked state, the form
\* name and the name of the hidden input, "none" when it is not rendered
groupMemberRender(ctxName, sel, c, props) ==
    LET name    == effectiveName(ctxName, props.name)
        checked == IF groupChecked(sel, c.value) THEN "true" ELSE "false"
    IN  [warnings |-> memberWarnings(props),
         checked  |-> checked,
         name     |-> name,
         hidden   |-> IF renderHiddenInput([name |-> name # "absent",
                                            value |-> "given"], checked)
                      THEN name ELSE "none"]

NoMount == [component |-> "none", inGroup |-> FALSE, value |-> "absent",
            outcome |-> "none"]

NoCheckEvent == [kind |-> "none", member |-> 0, sawValue |-> {},
                 sawChecked |-> "false"]

\* a click (or Space) on the i-th Checkbox of the group
CheckGroupActivate ==
    \E i \in DOMAIN checkboxes :
        /\ ~checkboxes[i].disabled
        /\ cgValue' = groupActivate(checkboxMode, cgValue, checkboxes[i])
        /\ checkEvent' = [kind |-> "group", member |-> i, sawValue |-> cgValue,
                          sawChecked |-> cbChecked]
        /\ UNCHANGED <<checkboxes, cbProps, cbChecked, cbMount>>

\* a click (or Space) on the Checkbox outside the group
CheckboxActivate ==
    /\ cbChecked' = checkActivate(checkboxMode, cbChecked)
    /\ checkEvent' = [kind |-> "single", member |-> 0, sawValue |-> cgValue,
                      sawChecked |-> cbChecked]
    /\ UNCHANGED <<checkboxes, cgValue, cbProps, cbMount>>

\* a Radio or a Checkbox is rendered for the first time, inside the group
\* or outside it: the check of value is the first thing its render does
MountMember ==
    \E comp \in {"Radio", "Checkbox"}, inGroup \in BOOLEAN, v \in ValueKinds :
        /\ cbMount' = [component |-> comp, inGroup |-> inGroup, value |-> v,
                       outcome |-> IF comp = "Radio" THEN radioSetup(inGroup, v)
                                   ELSE checkboxSetup(inGroup, v)]
        /\ UNCHANGED <<checkboxes, cgValue, cbProps, cbChecked, checkEvent>>

CkInit ==
    /\ checkboxes \in CheckLists
    /\ cgValue \in SUBSET { checkboxes[i].value : i \in DOMAIN checkboxes }
    /\ cbProps \in [name : BOOLEAN, value : ValueKinds]
    /\ cbChecked \in CheckedStates
    /\ cbMount = NoMount
    /\ checkEvent = NoCheckEvent

CkIdle ==
    /\ checkboxes = << >>
    /\ cgValue = {}
    /\ cbProps = [name |-> FALSE, value |-> "absent"]
    /\ cbChecked = "false"
    /\ cbMount = NoMount
    /\ checkEvent = NoCheckEvent

(***************************************************************************)
(* Controlled and uncontrolled state: TabGroup and Tooltip                 *)
(*                                                                         *)
(* A widget instance is a record: controlled (was the value prop given),   *)
(* prop (the external value), state (the internal value) and feeds (does   *)
(* the owner store what the change callback reports).  Each widget is      *)
(* mounted twice, controlled and uncontrolled, with the same initial value *)
(* and both instances receive the same user events.                        *)
(***************************************************************************)
TabValues == 1 .. MaxMembers

Instance(Values) ==
    [controlled : BOOLEAN, prop : Values, state : Values, feeds : BOOLEAN]

\* a variant of useControlledProp: the internal state is always the value
useControlledPropInternal(w) == w.state

\* useControlledProp: the value is the external one when it is supplied,
\* else the internal state
useControlledProp(w) == IF w.controlled THEN w.prop ELSE w.state

\* the setter returned by useControlledProp: stores when uncontrolled
setUncontrolled(w, v) == IF w.controlled THEN w ELSE [w EXCEPT !.state = v]

\* the change callback of the owner: an owner that feeds the value back
\* renders the widget with it as the external value
onChangeCallback(w, v) ==
    IF w.controlled /\ w.feeds THEN [w EXCEPT !.prop = v] ELSE w

\* a variant of handleChange: the change callback is not invoked
handleChangeNoCallback(tabValue) ==
    << [widget |-> "TabGroup", call |-> "set", arg |-> tabValue] >>

\* TabGroupBase.handleChange, as the calls it makes in order
handleChange(tabValue) ==
    << [widget |-> "TabGroup", call |-> "set", arg |-> tabValue],
       [widget |-> "TabGroup", call |-> "callback", arg |-> tabValue] >>

\* TooltipBase.emitOpenChange, as the calls it makes in order
emitOpenChange(newOpenState) ==
    << [widget |-> "Tooltip", call |-> "set", arg |-> newOpenState],
       [widget |-> "Tooltip", call |-> "callback", arg |-> newOpenState] >>

RECURSIVE runCalls(_, _)
\* the instance after the calls of a handler and the render that follows
runCalls(w, calls) ==
    IF calls = << >> THEN w
    ELSE LET c == Head(calls)
         IN  runCalls(IF c.call = "set" THEN setUncontrolled(w, c.arg)
                      ELSE onChangeCallback(w, c.arg),
                      Tail(calls))

\* the click on the anchor of a Tooltip: emitOpenChange(!open)
anchorClick(w) == emitOpenChange(~useControlledProp(w))

\* a variant of escapeKeyUp: the listener is attached while open,
\* whatever the behavior
escapeKeyUpAnyBehavior(w) ==
    IF useControlledProp(w) THEN emitOpenChange(FALSE) ELSE << >>

\* the keyup listener of the document is attached while
\* open && behavior === "open-on-click"
escapeKeyUp(w) ==
    IF useControlledProp(w) /\ behavior = "open-on-click"
    THEN emitOpenChange(FALSE) ELSE << >>

TooltipEvents == {"click", "mouseenter", "mouseleave", "Escape"}

\* the calls the listeners of the Tooltip w make for an event; a listener
\* that useEventListener has not attached makes none
tooltipListeners(w, event) ==
    CASE event = "click" ->
             IF behavior = "open-on-click" THEN anchorClick(w) ELSE << >>
      [] event = "mouseenter" ->
             IF behavior = "open-on-hover" THEN emitOpenChange(TRUE) ELSE << >>
      [] event = "mouseleave" ->
             IF behavior = "open-on-hover" THEN emitOpenChange(FALSE) ELSE << >>
      [] OTHER -> escapeKeyUp(w)

\* a click on the Tab with value v: tabGroupCtx.onChange(v)
TabClick ==
    \E v \in TabValues :
        /\ tgCtl' = runCalls(tgCtl, handleChange(v))
        /\ tgUnc' = runCalls(tgUnc, handleChange(v))
        /\ lastCalls' = handleChange(v)
        /\ UNCHANGED <<ttCtl, ttUnc, behavior>>

TooltipAnchorClick ==
    /\ behavior = "open-on-click"
    /\ ttCtl' = runCalls(ttCtl, anchorClick(ttCtl))
    /\ ttUnc' = runCalls(ttUnc, anchorClick(ttUnc))
    /\ lastCalls' = anchorClick(ttUnc)
    /\ UNCHANGED <<tgCtl, tgUnc, behavior>>

TooltipMouseEnter ==
    /\ behavior = "open-on-hover"
    /\ ttCtl' = runCalls(ttCtl, emitOpenChange(TRUE))
    /\ ttUnc' = runCalls(ttUnc, emitOpenChange(TRUE))
    /\ lastCalls' = emitOpenChange(TRUE)
    /\ UNCHANGED <<tgCtl, tgUnc, behavior>>

TooltipMouseLeave ==
    /\ behavior = "open-on-hover"
    /\ ttCtl' = runCalls(ttCtl, emitOpenChange(FALSE))
    /\ ttUnc' = runCalls(ttUnc, emitOpenChange(FALSE))
    /\ lastCalls' = emitOpenChange(FALSE)
    /\ UNCHANGED <<tgCtl, tgUnc, behavior>>

TooltipEscape ==
    /\ escapeKeyUp(ttCtl) # << >> \/ escapeKeyUp(ttUnc) # << >>
    /\ ttCtl' = runCalls(ttCtl, escapeKeyUp(ttCtl))
    /\ ttUnc' = runCalls(ttUnc, escapeKeyUp(ttUnc))
    /\ lastCalls' = escapeKeyUp(ttUnc)
    /\ UNCHANGED <<tgCtl, tgUnc, behavior>>

\* an owner that does not feed the callback's value back renders the
\* controlled TabGroup with a value of its own
OwnerSetActiveTab ==
    \E v \in TabValues \cup {Null} :
        /\ ~tgCtl.feeds
        /\ tgCtl' = [tgCtl EXCEPT !.prop = v]
        /\ lastCalls' = << >>
        /\ UNCHANGED <<tgUnc, ttCtl, ttUnc, behavior>>

OwnerSetOpen ==
    \E v \in BOOLEAN :
        /\ ~ttCtl.feeds
        /\ ttCtl' = [ttCtl EXCEPT !.prop = v]
        /\ lastCalls' = << >>
        /\ UNCHANGED <<tgCtl, tgUnc, ttUnc, behavior>>

\* both instances of a widget are mounted with the same initial value: as
\* the external value of the one, as the default value of the other
CtInit ==
    /\ \E d \in TabValues \cup {Null}, f \in BOOLEAN :
           /\ tgCtl = [controlled |-> TRUE, prop |-> d, state |-> Null,
                       feeds |-> f]
           /\ tgUnc = [controlled |-> FALSE, prop |-> Null, state |-> d,
                       feeds |-> FALSE]
    /\ \E d \in BOOLEAN, f \in BOOLEAN :
           /\ ttCtl = [controlled |-> TRUE, prop |-> d, state |-> FALSE,
                       feeds |-> f]
           /\ ttUnc = [controlled |-> FALSE, prop |-> FALSE, state |-> d,
                       feeds |-> FALSE]
    /\ behavior \in {"open-on-click", "open-on-hover"}
    /\ lastCalls = << >>

CtIdle ==
    /\ tgCtl = [controlled |-> TRUE, prop |-> Null, state |-> Null,
                feeds |-> FALSE]
    /\ tgUnc = [controlled |-> FALSE, prop |-> Null, state |-> Null,
                feeds |-> FALSE]
    /\ ttCtl = [controlled |-> TRUE, prop |-> FALSE, state |-> FALSE,
                feeds |-> FALSE]
    /\ ttUnc = [controlled |-> FALSE, prop |-> FALSE, state |-> FALSE,
                feeds |-> FALSE]
    /\ behavior = "open-on-click"
    /\ lastCalls = << >>

(***************************************************************************)
(* Typeahead on a select-only combobox with its list open                  *)
(*                                                                         *)
(* An option is an Element with a text, a sequence of characters.  The     *)
(* query buffer holds case-folded characters; elapsed says that the reset  *)
(* window has passed since the last printable key.                         *)
(***************************************************************************)
Apple   == <<"A", "p", "p", "l", "e">>
apricot == <<"a", "p", "r", "i", "c", "o", "t">>
Banana  == <<"B", "a", "n", "a", "n", "a">>

Texts == <<Apple, apricot, Banana>>

PrintableKeys == {"a", "A", "p", "b"}

NavKeys == {"DOWN", "UP", "HOME", "END"}

\* String.prototype.toLowerCase on one character
toLowerCase(c) == IF c = "A" THEN "a" ELSE IF c = "B" THEN "b" ELSE c

TextElement(id, d) ==
    [id |-> id, text |-> Texts[id], disabled |-> d, dataHidden |-> FALSE,
     ariaHidden |-> FALSE, selected |-> FALSE]

\* the collections: the options in any order, each at most once, each
\* disabled or not
TextCollections ==
    UNION { { its \in [1 .. n -> { TextElement(id, d) :
                                     id \in DOMAIN Texts, d \in BOOLEAN }] :
                \A i, j \in 1 .. n : its[i].id = its[j].id => i = j } :
            n \in 0 .. Len(Texts) }

\* a variant of startsWith: the text is compared as it is written
startsWithCaseSensitive(text, buf) ==
    /\ Len(buf) <= Len(text)
    /\ \A i \in 1 .. Len(buf) : text[i] = buf[i]

\* the case-folded text starts with the buffer
startsWith(text, buf) ==
    /\ Len(buf) <= Len(text)
    /\ \A i \in 1 .. Len(buf) : toLowerCase(text[i]) = buf[i]

\* the scan: the k-th index tried after the active one, wrapping (0-based)
scanIdx(its, active, k) == JsMod(FindIndex(its, active) + k, Len(its))

\* the first available option in scan order whose text starts with the
\* buffer, or Null
typeaheadMatch(its, active, buf) ==
    LET hits == { k \in 1 .. Len(its) :
                    /\ ~isUnavailable(At(its, scanIdx(its, active, k)))
                    /\ startsWith(At(its, scanIdx(its, active, k)).text, buf) }
    IN  IF hits = {} THEN Null
        ELSE At(its, scanIdx(its, active,
                             CHOOSE k \in hits : \A h \in hits : k <= h)).id

TypeaheadState == [active |-> taActive, buffer |-> queryBuffer,
                   elapsed |-> elapsed]

\* jumpToChar(event): the buffer is cleared when the reset window has
\* passed, the folded character is appended, and a match becomes active
jumpToChar(its, s, key) ==
    LET buf == Append(IF s.elapsed THEN << >> ELSE s.buffer, toLowerCase(key))
        hit == typeaheadMatch(its, s.active, buf)
    IN  [active |-> IF hit = Null THEN s.active ELSE hit,
         buffer |-> buf, elapsed |-> FALSE]

\* handleKeyDown, cases DOWN, UP, HOME and END on the open list: the search
\* that the key starts
navSearch(its, active, key) ==
    IF key = "DOWN"
    THEN (IF active # Null
          THEN getAvailableItem(its, downNextIdx(its, active), TRUE)
          ELSE getInitialAvailableItem(its, TRUE))
    ELSE IF key = "UP"
    THEN (IF active # Null
          THEN getAvailableItem(its, upNextIdx(its, active), FALSE)
          ELSE getInitialAvailableItem(its, FALSE))
    ELSE IF key = "HOME" THEN getAvailableItem(its, 0, TRUE)
    ELSE getAvailableItem(its, Len(its) - 1, FALSE)

\* handleKeyDown, default case of a select-only combobox:
\* if (isPrintableKey(event.key)) jumpToChar(event)
TaPrintableKey ==
    \E key \in PrintableKeys :
        LET r == jumpToChar(taItems, TypeaheadState, key)
        IN  /\ Len(r.buffer) <= MaxQuery
            /\ taActive' = r.active
            /\ queryBuffer' = r.buffer
            /\ elapsed' = r.elapsed
            /\ UNCHANGED taItems

TaNavKey ==
    \E key \in NavKeys :
        /\ taActive' = navSearch(taItems, taActive, key).item
        /\ UNCHANGED <<taItems, queryBuffer, elapsed>>

\* the reset window passes without a printable key
TaTimePasses ==
    /\ ~elapsed
    /\ elapsed' = TRUE
    /\ UNCHANGED <<taItems, taActive, queryBuffer>>

TaInit ==
    /\ taItems \in TextCollections
    /\ taActive = Null
    /\ queryBuffer = << >>
    /\ elapsed = TRUE

TaIdle ==
    /\ taItems = << >>
    /\ taActive = Null
    /\ queryBuffer = << >>
    /\ elapsed = TRUE

(***************************************************************************)
(* Focus visibility (ThumbBase; useComboboxBase has the same handlers)     *)
(*                                                                         *)
(* A thumb is a record: the prop disabled, the state isFocusedVisible, the *)
(* ref isFocusVisibleRef.current and focused, whether it holds the focus.  *)
(* Its history records the classification made at its last focus event,    *)
(* the state before that event, whether it was rendered disabled since,    *)
(* and the last event its handlers handled.                                *)
(***************************************************************************)
ThumbNames == {"infimum", "supremum"}

FocusOrigins == {"keyboard", "pointer"}

\* useIsFocusVisible().onFocus: a focus of keyboard origin sets the ref
handleFocusVisible(ref, origin) == IF origin = "keyboard" THEN TRUE ELSE ref

\* useIsFocusVisible().onBlur: the ref is cleared
handleBlurVisible(ref) == FALSE

\* a variant of thumbRender: a disabled thumb keeps its state
thumbRenderNoReset(t) ==
    [t EXCEPT !.isFocusVisibleRef = t.isFocusedVisible]

\* the render and the effect that follows it:
\* if (disabled && isFocusedVisible) setIsFocusedVisible(false);
\* useEffect(() => void (isFocusVisibleRef.current = isFocusedVisible))
thumbRender(t) ==
    LET s == IF t.disabled /\ t.isFocusedVisible THEN FALSE
             ELSE t.isFocusedVisible
    IN  [t EXCEPT !.isFocusedVisible = s, !.isFocusVisibleRef = s]

\* a variant of thumbHandleFocus: every focus counts as visible
thumbHandleFocusAlways(t, origin) ==
    IF t.disabled THEN t
    ELSE thumbRender([t EXCEPT !.isFocusedVisible = TRUE,
                               !.isFocusVisibleRef = TRUE])

\* handleFocus
thumbHandleFocus(t, origin) ==
    IF t.disabled THEN t
    ELSE LET ref == handleFocusVisible(t.isFocusVisibleRef, origin)
         IN  thumbRender([t EXCEPT !.isFocusVisibleRef = ref,
                                   !.isFocusedVisible = IF ref THEN TRUE ELSE @])

\* a variant of thumbHandleBlur: the state is left as it is
thumbHandleBlurKeeps(t) ==
    IF t.disabled THEN t
    ELSE thumbRender([t EXCEPT !.isFocusVisibleRef = handleBlurVisible(@)])

\* handleBlur
thumbHandleBlur(t) ==
    IF t.disabled THEN t
    ELSE LET ref == handleBlurVisible(t.isFocusVisibleRef)
         IN  thumbRender([t EXCEPT !.isFocusVisibleRef = ref,
                                   !.isFocusedVisible = IF ref = FALSE THEN FALSE
                                                        ELSE @])

\* a thumb after its mount: useState(() => disabled ? false : autoFocus),
\* the layout effect that focuses it, and the first effect
thumbMounted(disabled, autoFocus) ==
    [disabled |-> disabled,
     isFocusedVisible |-> IF disabled THEN FALSE ELSE autoFocus,
     isFocusVisibleRef |-> IF disabled THEN FALSE ELSE autoFocus,
     focused |-> IF disabled THEN FALSE ELSE autoFocus]

NoFocusYet(t) ==
    [atFocus |-> t.isFocusedVisible, before |-> t.isFocusedVisible,
     disabledSince |-> FALSE, last |-> IF t.focused THEN "focus" ELSE "none"]

\* the thumb receives the focus, from the keyboard or from the pointer;
\* a disabled thumb can be focused too, and ignores the event
ThumbFocus ==
    \E n \in ThumbNames, origin \in FocusOrigins :
        LET t == thumbHandleFocus(thumbs[n], origin)
        IN  /\ \A k \in ThumbNames : ~thumbs[k].focused
            /\ thumbs' = [thumbs EXCEPT ![n] = [t EXCEPT !.focused = TRUE]]
            /\ thumbHistory' = [thumbHistory EXCEPT ![n] =
                   [atFocus |-> handleFocusVisible(
                                    thumbs[n].isFocusVisibleRef, origin),
                    before |-> thumbs[n].isFocusedVisible,
                    disabledSince |-> thumbs[n].disabled,
                    last |-> IF thumbs[n].disabled THEN "ignored"
                             ELSE "focus"]]

\* the thumb loses the focus; a disabled thumb ignores the event
ThumbBlur ==
    \E n \in ThumbNames :
        LET t == thumbHandleBlur(thumbs[n])
        IN  /\ thumbs[n].focused
            /\ thumbs' = [thumbs EXCEPT ![n] = [t EXCEPT !.focused = FALSE]]
            /\ thumbHistory' = [thumbHistory EXCEPT ![n].last =
                   IF thumbs[n].disabled THEN "ignored" ELSE "blur"]

\* the owner renders the thumb with the other value of disabled
ThumbSetDisabled ==
    \E n \in ThumbNames :
        /\ thumbs' = [thumbs EXCEPT ![n] =
                          thumbRender([thumbs[n] EXCEPT !.disabled = ~@])]
        /\ thumbHistory' = [thumbHistory EXCEPT ![n].disabledSince =
                                @ \/ ~thumbs[n].disabled]

\* at most one thumb is mounted with autoFocus
FvInit ==
    /\ \E d \in [ThumbNames -> BOOLEAN], a \in [ThumbNames -> BOOLEAN] :
           /\ \E n \in ThumbNames : ~a[n]
           /\ thumbs = [n \in ThumbNames |-> thumbMounted(d[n], a[n])]
    /\ thumbHistory = [n \in ThumbNames |-> NoFocusYet(thumbs[n])]

FvIdle ==
    /\ thumbs = [n \in ThumbNames |-> thumbMounted(TRUE, FALSE)]
    /\ thumbHistory = [n \in ThumbNames |-> NoFocusYet(thumbs[n])]

(***************************************************************************)
(* Snackbar (SnackbarBase): the auto-dismiss timer                         *)
(*                                                                         *)
(* snProps.timed stands for `duration && onDurationEnd`.  useOnChange is   *)
(* an external hook: it calls back when open differs from the previous     *)
(* render; whether it also calls back for the initial value is not fixed   *)
(* by the source, so changeOnMount is chosen when the model starts.        *)
(***************************************************************************)
SnackbarProps == [open : BOOLEAN, timed : BOOLEAN]

\* what document.activeElement can be when open changes
ActiveElements == {"body", "trigger"}

\* window.setTimeout: an id no scheduled timer has
setTimeout(pending) ==
    CHOOSE id \in 1..(Cardinality(pending) + 1) :
        /\ id \notin pending
        /\ \A j \in 1..(id - 1) : j \in pending

\* window.clearTimeout
clearTimeout(pending, id) == pending \ {id}

\* a variant of onOpenChange: closing leaves the timer scheduled
onOpenChangeNoClear(props, ref, pending) ==
    IF props.open /\ props.timed
    THEN [ref |-> setTimeout(pending), pending |-> pending \cup {setTimeout(pending)}]
    ELSE [ref |-> ref, pending |-> pending]

\* the callback given to useOnChange(open, ...)
onOpenChange(props, ref, pending) ==
    IF props.open /\ props.timed
    THEN [ref |-> setTimeout(pending), pending |-> pending \cup {setTimeout(pending)}]
    ELSE [ref |-> ref, pending |-> clearTimeout(pending, ref)]

\* the owner renders the snackbar with the other value of open
SnSetOpen ==
    LET p == [snProps EXCEPT !.open = ~@]
        r == onOpenChange(p, timeoutRef, snPending)
    IN  /\ snMounted
        /\ snProps' = p
        /\ previouslyFocusedElement' \in ActiveElements
        /\ timeoutRef' = r.ref
        /\ snPending' = r.pending
        /\ snFired' = IF p.open THEN 0 ELSE snFired
        /\ UNCHANGED <<snMounted, snInvokedWhile, changeOnMount>>

\* the owner renders the snackbar with duration and onDurationEnd given
\* or taken away; open is the same, so useOnChange does not call back
SnSetTimed ==
    /\ snMounted
    /\ snProps' = [snProps EXCEPT !.timed = ~@]
    /\ UNCHANGED <<snMounted, timeoutRef, previouslyFocusedElement, snPending,
                   snFired, snInvokedWhile, changeOnMount>>

\* a scheduled timer fires: onDurationEnd is invoked
SnTimerFires ==
    \E id \in snPending :
        /\ snPending' = snPending \ {id}
        /\ snFired' = snFired + 1
        /\ snInvokedWhile' = IF ~snMounted THEN "unmounted"
                             ELSE IF snProps.open THEN "open" ELSE "closed"
        /\ UNCHANGED <<snMounted, snProps, timeoutRef, previouslyFocusedElement,
                       changeOnMount>>

\* the unmount: () => window.clearTimeout(timeoutRef.current)
SnUnmount ==
    /\ snMounted
    /\ snMounted' = FALSE
    /\ snPending' = clearTimeout(snPending, timeoutRef)
    /\ UNCHANGED <<snProps, timeoutRef, previouslyFocusedElement, snFired,
                   snInvokedWhile, changeOnMount>>

\* what a new instance is after its first render and effects
snAfterMount(p, pending, onMount) ==
    IF onMount THEN onOpenChange(p, NaN, pending)
    ELSE [ref |-> NaN, pending |-> pending]

\* a new instance is mounted, open or closed
SnMount ==
    \E p \in SnackbarProps :
        /\ ~snMounted
        /\ snMounted' = TRUE
        /\ snProps' = p
        /\ timeoutRef' = snAfterMount(p, snPending, changeOnMount).ref
        /\ snPending' = snAfterMount(p, snPending, changeOnMount).pending
        /\ previouslyFocusedElement' \in
               IF changeOnMount THEN ActiveElements ELSE {"none"}
        /\ snFired' = 0
        /\ UNCHANGED <<snInvokedWhile, changeOnMount>>

SnInit ==
    /\ changeOnMount \in BOOLEAN
    /\ snMounted = TRUE
    /\ snProps \in SnackbarProps
    /\ timeoutRef = snAfterMount(snProps, {}, changeOnMount).ref
    /\ snPending = snAfterMount(snProps, {}, changeOnMount).pending
    /\ previouslyFocusedElement \in
           IF changeOnMount THEN ActiveElements ELSE {"none"}
    /\ snFired = 0
    /\ snInvokedWhile = "never"

SnIdle ==
    /\ changeOnMount = FALSE
    /\ snMounted = FALSE
    /\ snProps = [open |-> FALSE, timed |-> FALSE]
    /\ timeoutRef = NaN
    /\ previouslyFocusedElement = "none"
    /\ snPending = {}
    /\ snFired = 0
    /\ snInvokedWhile = "never"

(***************************************************************************)
(* Tab: the keydown handler and the click handler                          *)
(*                                                                         *)
(* Tabs are known by their index; the active tab is an index or NaN.       *)
(* The key is given as the case the handler resolves it to (goPrev,        *)
(* goNext, goFirst, goLast) from the orientation and the direction.        *)
(***************************************************************************)
TabNavCases == {"goPrev", "goNext", "goFirst", "goLast"}

TabIndexes(tabs) == {i \in 0 .. Len(tabs) - 1 : tabs[i + 1] = "enabled"}

\* focusTabRef, as an index, or NaN for null
focusTabRef(tabs, index, key) ==
    CASE key = "goPrev" ->
             getAvailableTab(tabs, JsMod(index - 1 + Len(tabs), Len(tabs)),
                             FALSE).tab
      [] key = "goNext" ->
             getAvailableTab(tabs, JsMod(index + 1, Len(tabs)), TRUE).tab
      [] key = "goFirst" -> getAvailableTab(tabs, 0, TRUE).tab
      [] OTHER -> getAvailableTab(tabs, Len(tabs) - 1, FALSE).tab

\* onClick of the tab at index: tabGroupCtx.onChange(index)
tabClick(index) == handleChange(index)

\* a variant of tabKeyDown: the found tab is clicked whatever the
\* keyboardActivationBehavior is
tabKeyDownAlwaysClicks(tabs, index, group, activation, key) ==
    LET target == focusTabRef(tabs, index, key)
    IN  IF target = NaN
        THEN [focus |-> index, calls |-> << >>, group |-> group]
        ELSE [focus |-> target, calls |-> tabClick(target),
              group |-> runCalls(group, tabClick(target))]

\* onKeyDown of the focused tab at index: the tab that gets the focus,
\* the calls made on the TabGroup and the TabGroup after them
tabKeyDown(tabs, index, group, activation, key) ==
    LET target == focusTabRef(tabs, index, key)
        calls  == IF activation = "automatic" THEN tabClick(target) ELSE << >>
    IN  IF target = NaN
        THEN [focus |-> index, calls |-> << >>, group |-> group]
        ELSE [focus |-> target, calls |-> calls,
              group |-> runCalls(group, calls)]

\* a variant of tabNavCase: the direction is not looked at
tabNavCaseLtrOnly(key, orient, d) ==
    CASE key = "Home" -> "goFirst"
      [] key = "End" -> "goLast"
      [] key = (IF orient = "horizontal" THEN "ArrowRight" ELSE "ArrowDown")
             -> "goNext"
      [] key = (IF orient = "horizontal" THEN "ArrowLeft" ELSE "ArrowUp")
             -> "goPrev"
      [] OTHER -> "none"

\* the case the handler resolves event.key to: goNext, goPrev, goFirst,
\* goLast, or "none" when the key is none of them
tabNavCase(key, orient, d) ==
    CASE key = (IF orient = "horizontal"
                THEN (IF d = "ltr" THEN "ArrowLeft" ELSE "ArrowRight")
                ELSE "ArrowUp") -> "goPrev"
      [] key = (IF orient = "horizontal"
                THEN (IF d = "ltr" THEN "ArrowRight" ELSE "ArrowLeft")
                ELSE "ArrowDown") -> "goNext"
      [] key = "Home" -> "goFirst"
      [] key = "End" -> "goLast"
      [] OTHER -> "none"

TabKeys == {"ArrowLeft", "ArrowRight", "ArrowUp", "ArrowDown", "Home", "End"}

\* onKeyDown for event.key: a key that is no navigation key does nothing
tabKey(tabs, index, group, activation, orient, d, key) ==
    IF tabNavCase(key, orient, d) = "none"
    THEN [focus |-> index, calls |-> << >>, group |-> group]
    ELSE tabKeyDown(tabs, index, group, activation, tabNavCase(key, orient, d))

\* a key is pressed on the focused tab
TkKeyDown ==
    \E key \in TabKeys :
        LET r == tabKey(tkTabs, tkFocus, tkGroup, keyboardActivationBehavior,
                        orientation, tkDir, key)
        IN  /\ tkFocus' = r.focus
            /\ tkGroup' = r.group
            /\ UNCHANGED <<tkTabs, keyboardActivationBehavior, orientation, tkDir>>

\* an enabled tab is clicked with the pointer: it gets the focus
TkClick ==
    \E i \in TabIndexes(tkTabs) :
        /\ tkFocus' = i
        /\ tkGroup' = runCalls(tkGroup, tabClick(i))
        /\ UNCHANGED <<tkTabs, keyboardActivationBehavior, orientation, tkDir>>

\* an owner that does not feed the callback's value back renders the
\* controlled TabGroup with an active tab of its own
TkOwnerSetActiveTab ==
    \E v \in TabIndexes(tkTabs) :
        /\ tkGroup.controlled /\ ~tkGroup.feeds
        /\ tkGroup' = [tkGroup EXCEPT !.prop = v]
        /\ UNCHANGED <<tkTabs, tkFocus, keyboardActivationBehavior, orientation,
                       tkDir>>

TkInit ==
    /\ tkTabs \in AllTabLists
    /\ tkFocus \in TabIndexes(tkTabs)
    /\ \E d \in TabIndexes(tkTabs) \cup {NaN}, c \in BOOLEAN, f \in BOOLEAN :
           tkGroup = [controlled |-> c,
                      prop |-> IF c THEN d ELSE NaN,
                      state |-> IF c THEN NaN ELSE d,
                      feeds |-> c /\ f]
    /\ keyboardActivationBehavior \in {"manual", "automatic"}
    /\ orientation \in {"horizontal", "vertical"}
    /\ tkDir \in {"ltr", "rtl"}

TkIdle ==
    /\ tkTabs = <<"enabled">>
    /\ tkFocus = 0
    /\ tkGroup = [controlled |-> FALSE, prop |-> NaN, state |-> NaN,
                  feeds |-> FALSE]
    /\ keyboardActivationBehavior = "manual"
    /\ orientation = "horizontal"
    /\ tkDir = "ltr"

(***************************************************************************)
(* The searchable combobox: cached options, filter, and a Select.Group     *)
(***************************************************************************)
\* the data-entity of the options that can be in the collection
Entities == DOMAIN Texts

\* the options rendered inside the Select.Group
GroupMembers == {1, 2}

\* values of the input
Queries == {<< >>, <<"a">>, <<"A", "p">>, <<"b">>, <<"p", "p">>, <<"p", "a">>}

ComboKeys == {"DOWN", "UP", "HOME", "END", "ESCAPE", "TAB", "BACKSPACE",
              "ENTER", "SPACE", "a"}

\* String.prototype.toLowerCase
lowerCase(s) == [i \in 1 .. Len(s) |-> toLowerCase(s[i])]

\* String.prototype.includes
includes(text, query) ==
    \E k \in 0 .. Len(text) - Len(query) :
        \A i \in 1 .. Len(query) : text[k + i] = query[i]

\* Select.Group, the memoized isHidden computed from the filter and the
\* group's option elements
groupIsHidden(filteredNull, filtered, options) ==
    IF filteredNull THEN FALSE
    ELSE IF filtered = {} THEN TRUE
    ELSE \A e \in options \cap GroupMembers : e \notin filtered

\* onFilteredEntities(entities): the owner stores the list; the group's memo
\* is computed again when the stored value is another one
onFilteredEntities(s, isNull, entities) ==
    IF isNull /\ s.filteredNull THEN s
    ELSE [s EXCEPT !.filteredNull = isNull, !.filtered = entities,
                   !.hidden = groupIsHidden(isNull, entities, s.options)]

\* getCachedItems: the options are queried when the cache is empty
getCachedItems(s) == IF s.cache = {} THEN s.options ELSE s.cache

\* handleQueryChange
handleQueryChange(s, query) ==
    IF s.disabled \/ s.readOnly THEN s
    ELSE IF ~s.searchable THEN s
    ELSE LET its == getCachedItems(s)
             entities == { e \in its :
                             includes(lowerCase(Texts[e]), lowerCase(query)) }
         IN  onFilteredEntities([s EXCEPT !.cache = its], FALSE, entities)

\* the render with another listOpenState and the useOnChange callback
listOpenChanged(s, open) ==
    LET r == [s EXCEPT !.open = open]
    IN  IF s.disabled \/ s.readOnly THEN r
        ELSE IF ~s.searchable THEN r
        ELSE IF open THEN [r EXCEPT !.cache = s.options]
        ELSE onFilteredEntities([r EXCEPT !.cache = {}], TRUE, {})

\* onListOpenChange(next): the owner renders with the next state
onListOpenChange(s, next) == IF s.open = next THEN s ELSE listOpenChanged(s, next)

\* handleClick: the callbacks it invokes
handleClick(s) == IF s.disabled \/ s.readOnly THEN {} ELSE {"onClick"}

\* a variant of comboKeyDown: a read-only combobox handles the key
comboKeyDownReadOnlyHandled(s, key) ==
    IF s.disabled THEN [state |-> s, calls |-> {}]
    ELSE CASE key \in {"DOWN", "UP"} ->
                [state |-> onListOpenChange(s, TRUE),
                 calls |-> (IF s.open THEN {} ELSE {"onListOpenChange"})
                           \cup {"onActiveDescendantChange", "onKeyDown"}]
           [] OTHER -> [state |-> s, calls |-> {"onKeyDown"}]

\* handleKeyDown: the state after it and the callbacks it invokes
comboKeyDown(s, key) ==
    IF s.disabled THEN [state |-> s, calls |-> {}]
    ELSE IF s.readOnly THEN [state |-> s, calls |-> {}]
    ELSE CASE key \in {"DOWN", "UP"} ->
                [state |-> onListOpenChange(s, TRUE),
                 calls |-> (IF s.open THEN {} ELSE {"onListOpenChange"})
                           \cup {"onActiveDescendantChange", "onKeyDown"}]
           [] key \in {"HOME", "END"} ->
                [state |-> s,
                 calls |-> (IF s.open THEN {"onActiveDescendantChange"} ELSE {})
                           \cup {"onKeyDown"}]
           [] key = "ESCAPE" ->
                [state |-> s, calls |-> {"onEscapeKeyDown", "onKeyDown"}]
           [] key = "TAB" ->
                [state |-> onListOpenChange(s, FALSE),
                 calls |-> {"onListOpenChange", "onKeyDown"}]
           [] key = "BACKSPACE" ->
                [state |-> s, calls |-> {"onBackspaceKeyDown", "onKeyDown"}]
           [] key = "ENTER" ->
                [state |-> s,
                 calls |-> (IF ~s.open
                            THEN (IF s.searchable THEN {} ELSE handleClick(s))
                            ELSE {"optionClick"}) \cup {"onKeyDown"}]
           [] key = "SPACE" /\ ~s.searchable ->
                [state |-> s,
                 calls |-> (IF ~s.open THEN handleClick(s) ELSE {"optionClick"})
                           \cup {"onKeyDown"}]
           [] key = "a" /\ ~s.searchable ->
                [state |-> s, calls |-> {"onActiveDescendantChange", "onKeyDown"}]
           [] key = "a" /\ s.searchable ->
                [state |-> onListOpenChange(s, TRUE),
                 calls |-> (IF s.open THEN {} ELSE {"onListOpenChange"})
                           \cup {"onPrintableKeyDown", "onKeyDown"}]
           [] OTHER -> [state |-> s, calls |-> {"onKeyDown"}]

\* the entities present at or after the last reopen, once the state is s
presentSince(s) ==
    IF ~s.open THEN {}
    ELSE IF ~cbx.open THEN s.options
    ELSE sinceReopen \cup s.options

CbxStep(s) ==
    /\ cbx' = s
    /\ sinceReopen' = presentSince(s)

CbxKeyDown == \E key \in ComboKeys : CbxStep(comboKeyDown(cbx, key).state)

CbxQueryChange == \E query \in Queries : CbxStep(handleQueryChange(cbx, query))

CbxFocus == \E origin \in FocusOrigins : CbxStep(thumbHandleFocus(cbx, origin))

CbxBlur == CbxStep(thumbHandleBlur(cbx))

\* the owner renders with another listOpenState
CbxOwnerSetOpen == CbxStep(listOpenChanged(cbx, ~cbx.open))

\* the owner renders with another disabled
CbxSetDisabled == CbxStep(thumbRender([cbx EXCEPT !.disabled = ~@]))

\* the owner renders with another readOnly
CbxSetReadOnly == CbxStep([cbx EXCEPT !.readOnly = ~@])

\* the owner renders another option
CbxAddOption ==
    \E e \in Entities \ cbx.options :
        CbxStep([cbx EXCEPT !.options = @ \cup {e}])

\* the owner no longer renders an option
CbxRemoveOption ==
    \E e \in cbx.options : CbxStep([cbx EXCEPT !.options = @ \ {e}])

comboMounted(searchable, options) ==
    [disabled |-> FALSE, readOnly |-> FALSE, searchable |-> searchable,
     isFocusedVisible |-> FALSE, isFocusVisibleRef |-> FALSE,
     open |-> FALSE, options |-> options, cache |-> {},
     filteredNull |-> TRUE, filtered |-> {}, hidden |-> FALSE]

CbxInit ==
    /\ \E searchable \in BOOLEAN, options \in SUBSET Entities :
           cbx = comboMounted(searchable, options)
    /\ sinceReopen = {}

CbxIdle ==
    /\ cbx = comboMounted(FALSE, {})
    /\ sinceReopen = {}

(***************************************************************************)
(* Specifications                                                          *)
(***************************************************************************)
vars == <<selVars, srchVars, menuVars, radioVars, checkVars, ctlVars, taVars, fvVars, snVars, tkVars, cbxVars>>

selRest   == <<srchVars, menuVars, radioVars, checkVars, ctlVars, taVars, fvVars, snVars, tkVars, cbxVars>>
srchRest  == <<selVars, menuVars, radioVars, checkVars, ctlVars, taVars, fvVars, snVars, tkVars, cbxVars>>
menuRest  == <<selVars, srchVars, radioVars, checkVars, ctlVars, taVars, fvVars, snVars, tkVars, cbxVars>>
radioRest == <<selVars, srchVars, menuVars, checkVars, ctlVars, taVars, fvVars, snVars, tkVars, cbxVars>>
checkRest == <<selVars, srchVars, menuVars, radioVars, ctlVars, taVars, fvVars, snVars, tkVars, cbxVars>>
ctlRest   == <<selVars, srchVars, menuVars, radioVars, checkVars, taVars, fvVars, snVars, tkVars, cbxVars>>
taRest    == <<selVars, srchVars, menuVars, radioVars, checkVars, ctlVars, fvVars, snVars, tkVars, cbxVars>>
fvRest    == <<selVars, srchVars, menuVars, radioVars, checkVars, ctlVars, taVars, snVars, tkVars, cbxVars>>
snRest    == <<selVars, srchVars, menuVars, radioVars, checkVars, ctlVars, taVars, fvVars, tkVars, cbxVars>>
tkRest    == <<selVars, srchVars, menuVars, radioVars, checkVars, ctlVars, taVars, fvVars, snVars, cbxVars>>
cbxRest   == <<selVars, srchVars, menuVars, radioVars, checkVars, ctlVars, taVars, fvVars, snVars, tkVars>>

SelectInit == SelInit /\ SrchIdle /\ MnIdle /\ RgIdle /\ CkIdle /\ CtIdle /\ TaIdle /\ FvIdle /\ SnIdle /\ TkIdle /\ CbxIdle

SelectNext ==
    \/ KeyDownDOWN /\ UNCHANGED selRest
    \/ KeyDownUP /\ UNCHANGED selRest
    \/ KeyDownHOME /\ UNCHANGED selRest
    \/ KeyDownEND /\ UNCHANGED selRest
    \/ KeyDownTAB /\ UNCHANGED selRest
    \/ AddOption /\ UNCHANGED selRest
    \/ RemoveOption /\ UNCHANGED selRest

SelectSpec == SelectInit /\ [][SelectNext]_vars

SearchInit == SrchInit /\ SelIdle /\ MnIdle /\ RgIdle /\ CkIdle /\ CtIdle /\ TaIdle /\ FvIdle /\ SnIdle /\ TkIdle /\ CbxIdle

SearchNext ==
    \/ CallGetAvailableItem /\ UNCHANGED srchRest
    \/ CallGetInitialAvailableItem /\ UNCHANGED srchRest
    \/ CallGetAvailableTab /\ UNCHANGED srchRest

SearchSpec == SearchInit /\ [][SearchNext]_vars

MenuInit == MnInit /\ SelIdle /\ SrchIdle /\ RgIdle /\ CkIdle /\ CtIdle /\ TaIdle /\ FvIdle /\ SnIdle /\ TkIdle /\ CbxIdle

MenuNext ==
    \/ MenuKeyDown /\ UNCHANGED menuRest
    \/ MenuClick /\ UNCHANGED menuRest
    \/ OpenRoot /\ UNCHANGED menuRest
    \/ CloseRoot /\ UNCHANGED menuRest
    \/ ReRender /\ UNCHANGED menuRest

MenuSpec == MenuInit /\ [][MenuNext]_vars

RadioInit == RgInit /\ SelIdle /\ SrchIdle /\ MnIdle /\ CkIdle /\ CtIdle /\ TaIdle /\ FvIdle /\ SnIdle /\ TkIdle /\ CbxIdle

RadioNext ==
    \/ RadioActivate /\ UNCHANGED radioRest
    \/ RadioSetDisabled /\ UNCHANGED radioRest

RadioSpec == RadioInit /\ [][RadioNext]_vars

CheckInit == CkInit /\ SelIdle /\ SrchIdle /\ MnIdle /\ RgIdle /\ CtIdle /\ TaIdle /\ FvIdle /\ SnIdle /\ TkIdle /\ CbxIdle

CheckNext ==
    \/ CheckGroupActivate /\ UNCHANGED checkRest
    \/ CheckboxActivate /\ UNCHANGED checkRest
    \/ MountMember /\ UNCHANGED checkRest

CheckSpec == CheckInit /\ [][CheckNext]_vars

ControlInit == CtInit /\ SelIdle /\ SrchIdle /\ MnIdle /\ RgIdle /\ CkIdle /\ TaIdle /\ FvIdle /\ SnIdle /\ TkIdle /\ CbxIdle

ControlNext ==
    \/ TabClick /\ UNCHANGED ctlRest
    \/ TooltipAnchorClick /\ UNCHANGED ctlRest
    \/ TooltipMouseEnter /\ UNCHANGED ctlRest
    \/ TooltipMouseLeave /\ UNCHANGED ctlRest
    \/ TooltipEscape /\ UNCHANGED ctlRest
    \/ OwnerSetActiveTab /\ UNCHANGED ctlRest
    \/ OwnerSetOpen /\ UNCHANGED ctlRest

ControlSpec == ControlInit /\ [][ControlNext]_vars

TypeaheadInit ==
    TaInit /\ SelIdle /\ SrchIdle /\ MnIdle /\ RgIdle /\ CkIdle /\ CtIdle
           /\ FvIdle /\ SnIdle /\ TkIdle /\ CbxIdle

TypeaheadNext ==
    \/ TaPrintableKey /\ UNCHANGED taRest
    \/ TaNavKey /\ UNCHANGED taRest
    \/ TaTimePasses /\ UNCHANGED taRest

TypeaheadSpec == TypeaheadInit /\ [][TypeaheadNext]_vars

FocusInit ==
    FvInit /\ SelIdle /\ SrchIdle /\ MnIdle /\ RgIdle /\ CkIdle /\ CtIdle /\ TaIdle /\ SnIdle /\ TkIdle /\ CbxIdle

FocusNext ==
    \/ ThumbFocus /\ UNCHANGED fvRest
    \/ ThumbBlur /\ UNCHANGED fvRest
    \/ ThumbSetDisabled /\ UNCHANGED fvRest

FocusSpec == FocusInit /\ [][FocusNext]_vars

SnackbarInit ==
    SnInit /\ SelIdle /\ SrchIdle /\ MnIdle /\ RgIdle /\ CkIdle /\ CtIdle /\ TaIdle
           /\ FvIdle /\ TkIdle /\ CbxIdle

SnackbarNext ==
    \/ SnSetOpen /\ UNCHANGED snRest
    \/ SnSetTimed /\ UNCHANGED snRest
    \/ SnTimerFires /\ UNCHANGED snRest
    \/ SnUnmount /\ UNCHANGED snRest
    \/ SnMount /\ UNCHANGED snRest

SnackbarSpec == SnackbarInit /\ [][SnackbarNext]_vars

\* a scheduled timer does fire
SnackbarLiveSpec ==
    SnackbarInit /\ [][SnackbarNext]_vars
                 /\ WF_vars(SnTimerFires /\ UNCHANGED snRest)

TabKeyInit ==
    TkInit /\ SelIdle /\ SrchIdle /\ MnIdle /\ RgIdle /\ CkIdle /\ CtIdle /\ TaIdle
           /\ FvIdle /\ SnIdle /\ CbxIdle

TabKeyNext ==
    \/ TkKeyDown /\ UNCHANGED tkRest
    \/ TkClick /\ UNCHANGED tkRest
    \/ TkOwnerSetActiveTab /\ UNCHANGED tkRest

TabKeySpec == TabKeyInit /\ [][TabKeyNext]_vars

ComboboxInit == CbxInit /\ SelIdle /\ SrchIdle /\ MnIdle /\ RgIdle /\ CkIdle /\ CtIdle /\ TaIdle /\ FvIdle /\ SnIdle /\ TkIdle

ComboboxNext ==
    \/ CbxKeyDown /\ UNCHANGED cbxRest
    \/ CbxQueryChange /\ UNCHANGED cbxRest
    \/ CbxFocus /\ UNCHANGED cbxRest
    \/ CbxBlur /\ UNCHANGED cbxRest
    \/ CbxOwnerSetOpen /\ UNCHANGED cbxRest
    \/ CbxSetDisabled /\ UNCHANGED cbxRest
    \/ CbxSetReadOnly /\ UNCHANGED cbxRest
    \/ CbxAddOption /\ UNCHANGED cbxRest
    \/ CbxRemoveOption /\ UNCHANGED cbxRest

ComboboxSpec == ComboboxInit /\ [][ComboboxNext]_vars


(***************************************************************************)
(* Properties of the Select controller and of the searches                 *)
(***************************************************************************)
Hidden(item) == item.dataHidden \/ item.ariaHidden

AvailableElement(item) == ~item.disabled /\ ~Hidden(item)

AvailableIds(its) ==
    { its[i].id : i \in { j \in 1 .. Len(its) : AvailableElement(its[j]) } }

MoveKeys == {"DOWN", "UP", "HOME", "END"}

\* C1: after ArrowDown, ArrowUp, Home or End on an open list, from any
\* previous active descendant and any collection, the active descendant is
\* none or an element of the collection that is neither disabled nor hidden.
C1_MoveYieldsNoneOrAvailable ==
    (selEvent.key \in MoveKeys /\ selEvent.wasOpen)
        => activeDescendant \in {Null} \cup AvailableIds(items)

\* End was pressed on an open list whose active descendant had left the
\* collection, and the search skipped an unavailable last element.
C1_Witness ==
    /\ selEvent.key = "END" /\ selEvent.wasOpen
    /\ selEvent.prevActive \notin Ids(items) \cup {Null}
    /\ Len(items) >= 2
    /\ ~AvailableElement(items[Len(items)])
    /\ activeDescendant \in AvailableIds(items)

NoDuplicates(seq) ==
    \A i, j \in 1 .. Len(seq) : seq[i] = seq[j] => i = j

\* C2: with no available element, the cyclic search from any start index
\* in either direction, the initial-item search and the tab search return
\* none after examining at most |items| entries, none of them twice.
C2_NoneAvailableTerminates ==
    /\ (srchCall.fn \in {"getAvailableItem", "getInitialAvailableItem"}
           /\ AvailableIds(srchItems) = {})
        => /\ srchCall.item = Null
           /\ ~srchCall.diverged
           /\ Len(srchCall.examined) <= Len(srchItems)
           /\ NoDuplicates(srchCall.examined)
    /\ (srchCall.fn = "getAvailableTab"
           /\ \A i \in 1 .. Len(srchTabs) : srchTabs[i] # "enabled")
        => /\ srchCall.item = Null
           /\ ~srchCall.diverged
           /\ Len(srchCall.examined) <= Len(srchTabs)
           /\ NoDuplicates(srchCall.examined)

\* A backward search over three unavailable elements examined all three.
C2_Witness ==
    /\ srchCall.fn = "getAvailableItem" /\ ~srchCall.forward
    /\ Len(srchItems) >= 3
    /\ AvailableIds(srchItems) = {}
    /\ Len(srchCall.examined) = Len(srchItems)
    /\ srchCall.item = Null

\* C3: with at least one available element and the active descendant none
\* or any member of the collection, ArrowDown and ArrowUp on an open list
\* set the active descendant to an available element, never to none.
C3_MoveFindsAvailable ==
    (/\ selEvent.key \in {"DOWN", "UP"} /\ selEvent.wasOpen
     /\ AvailableIds(items) # {}
     /\ selEvent.prevActive \in {Null} \cup Ids(items))
        => activeDescendant \in AvailableIds(items)

\* ArrowUp from the first element, which is itself unavailable, wrapped
\* round the end of the collection to an available element.
C3_Witness ==
    /\ selEvent.key = "UP" /\ selEvent.wasOpen
    /\ Len(items) >= 3
    /\ selEvent.prevActive = items[1].id
    /\ ~AvailableElement(items[1])
    /\ ~AvailableElement(items[Len(items)])
    /\ activeDescendant \in AvailableIds(items)

RECURSIVE RepeatDown(_, _, _)
RepeatDown(its, active, n) ==
    IF n = 0 THEN active
    ELSE RepeatDown(its, downNextActive(its, active), n - 1)

\* C4: from an available active element of an unchanged collection,
\* ArrowDown repeated k times, k the number of available elements, makes
\* the original element active again, and no 0 < j < k repetitions do.
C4_CyclicClosure ==
    (listOpenState /\ activeDescendant \in AvailableIds(items))
        => LET k == Cardinality(AvailableIds(items))
           IN  /\ RepeatDown(items, activeDescendant, k) = activeDescendant
               /\ \A j \in 1 .. k - 1 :
                     RepeatDown(items, activeDescendant, j) # activeDescendant

\* ArrowDown moved from the last available element round to the first,
\* in a collection with two available elements and an unavailable one.
C4_Witness ==
    /\ selEvent.key = "DOWN" /\ selEvent.wasOpen
    /\ Cardinality(AvailableIds(items)) = 2
    /\ Len(items) >= 3
    /\ selEvent.prevActive \in AvailableIds(items)
    /\ activeDescendant \in AvailableIds(items)
    /\ FindIndex(items, activeDescendant) < FindIndex(items, selEvent.prevActive)

(***************************************************************************)
(* Properties of the Menu / Menu.Sub hand-off                              *)
(***************************************************************************)
\* menu m is keyboard-active: open, with isMenuActive true
KeyboardActive(m) == isOpen(menus, rootOpen, m) /\ menus[m].isMenuActive

\* the same of menu m in the menu states ms
KeyboardActiveIn(ms, m) == isOpen(ms, rootOpen, m) /\ ms[m].isMenuActive

\* C5: at most one of a parent menu and its submenu is keyboard-active, in
\* every reachable state, whatever sequence of key events, clicks, renders
\* and close/reopen of the root led to it.
C5_AtMostOneKeyboardActive ==
    \A m \in 2 .. Depth : ~(KeyboardActive(m - 1) /\ KeyboardActive(m))

\* the link between menu m - 1 and its submenu m is Open-ChildActive with
\* triggering item p
OpenChildActive(m, p) ==
    /\ isOpen(menus, rootOpen, m - 1)
    /\ menus[m - 1].activeSubTrigger = p
    /\ p # Null
    /\ ~menus[m - 1].isMenuActive
    /\ KeyboardActive(m)
    /\ m \in Listening

\* C6: from Open-ChildActive with triggering item p, the backward arrow key
\* (Left in LTR, Right in RTL) makes p the parent's active descendant, the
\* parent keyboard-active, the parent's active sub-trigger none and the
\* child's active descendant none.
C6_BackwardKeyReturnsToParent ==
    \A m \in 2 .. Depth : \A p \in 1 .. MenuLen :
        OpenChildActive(m, p) =>
            LET r == keyDownResult(closeSubKey(dir))
            IN  /\ r[m - 1].activeElement = p
                /\ KeyboardActiveIn(r, m - 1)
                /\ r[m - 1].activeSubTrigger = Null
                /\ r[m].activeElement = Null

OpenKeys == {"Enter", " ", openSubKey(dir)}

\* C7: with menu m keyboard-active and active item p, Enter, Space and the
\* forward arrow (Right in LTR, Left in RTL) open the submenu when p is its
\* trigger (active sub-trigger p, m no longer keyboard-active, the submenu
\* keyboard-active); when p is no trigger or there is no active item they
\* open no submenu and m stays keyboard-active.
C7_OpenKeysOpenSubmenu ==
    \A m \in Menus : \A key \in OpenKeys :
        (KeyboardActive(m) /\ m \in Listening) =>
            LET p == menus[m].activeElement
                r == keyDownResult(key)
            IN  IF hasPopup(m, p)
                THEN /\ r[m].activeSubTrigger = p
                     /\ ~KeyboardActiveIn(r, m)
                     /\ KeyboardActiveIn(r, m + 1)
                ELSE /\ r[m].activeSubTrigger = menus[m].activeSubTrigger
                     /\ KeyboardActiveIn(r, m)

\* Exactly the hand-off the state machine describes: a listening menu is
\* the only one, and no menu below it is left open.
SingleChain ==
    \A m \in Listening :
        /\ attached = <<m>>
        /\ \A k \in Menus : k > m => ~isOpen(menus, rootOpen, k)

\* The backward key and the opening keys do what C6 and C7 say in every
\* state where one menu alone has the keyboard.
HandOffOnSingleChain ==
    SingleChain => (C6_BackwardKeyReturnsToParent /\ C7_OpenKeysOpenSubmenu)

\* the first element of its, in DOM order, that is neither disabled nor
\* hidden; Null if there is none
FirstAvailable(its) ==
    IF AvailableIds(its) = {} THEN Null
    ELSE its[CHOOSE i \in 1 .. Len(its) :
                /\ AvailableElement(its[i])
                /\ \A j \in 1 .. i - 1 : ~AvailableElement(its[j])].id

\* C8: a key that opens the submenu of menu m makes the first available
\* item of the submenu its active descendant (none if it has no available
\* item); while the submenu stays open, a later render neither overwrites
\* the active descendant nor undoes a move made with the arrow keys.
C8_EntryActivatesFirstAvailable ==
    /\ \A m \in 1 .. Depth - 1 : \A key \in OpenKeys :
          (/\ KeyboardActive(m) /\ m \in Listening
           /\ hasPopup(m, menus[m].activeElement)
           /\ ~isOpen(menus, rootOpen, m + 1))
            => LET r == keyDownResult(key)
               IN  /\ isOpen(r, rootOpen, m + 1)
                   /\ r[m + 1].activeElement = FirstAvailable(menuItems[m + 1])
    /\ \A m \in 2 .. Depth :
          (isOpen(menus, rootOpen, m) /\ isOpen(renderResult, rootOpen, m))
            => renderResult[m].activeElement = menus[m].activeElement
    /\ \A m \in 2 .. Depth : \A key \in {"ArrowDown", "ArrowUp"} :
          (KeyboardActive(m) /\ attached = <<m>>)
            => keyDownResult(key)[m].activeElement =
                  menuNextActive(menuItems[m], menus[m].activeElement, key)

\* The submenu of the root was entered from the keyboard (the parent asked
\* for the first item, the ref callback has set it) and its first item is
\* unavailable: the second item is its active descendant.
C8_Witness ==
    /\ attached = <<2>>
    /\ KeyboardActive(2)
    /\ menus[1].shouldActivateFirstSubItemRef
    /\ ~AvailableElement(menuItems[2][1])
    /\ menus[2].activeElement = menuItems[2][2].id
    /\ menus[2].initialFocusRef

\* C9: Escape pressed while a submenu, at any depth below the root, is the
\* keyboard-active menu invokes the onEscape callback of the root.
C9_EscapeReachesRoot ==
    \A m \in 2 .. Depth :
        (KeyboardActive(m) /\ attached = <<m>>) => onEscapeInvoked

\* C10: a click invokes the onOutsideClick callback of the root only if
\* its target lies outside every displayed menu; a click inside the parent
\* while its submenu is keyboard-active does not invoke it.
C10_OutsideClickOnlyOutside ==
    \A t \in ClickTargets : \A nested \in BOOLEAN :
        onOutsideClickInvoked(t, nested) => t = 0

(***************************************************************************)
(* Properties of the RadioGroup                                            *)
(***************************************************************************)
\* C11: for any two distinct members a and b of a radio group, activating b
\* while a is selected yields the value of b and exactly one tab stop, b;
\* activating b again changes neither the value nor the tab stop.
C11_ActivateSelectsSingle ==
    \A a, b \in DOMAIN radios :
        (a # b /\ rgValue = radios[a].value /\ ~radios[b].disabled) =>
            LET g1 == radioActivate(radios, radioGroup, b)
            IN  /\ g1.value = radios[b].value
                /\ tabStops(radios, g1) = {b}
                /\ radioActivate(radios, g1, b) = g1

C11_Witness ==
    /\ radioEvent.kind = "activate"
    /\ radioEvent.saw # Null
    /\ radioEvent.saw # rgValue
    /\ rgValue = radios[radioEvent.member].value
    /\ tabStops(radios, radioGroup) = {radioEvent.member}

\* the member that the roving tab stop rule names: the selected member, or
\* the first member that is not disabled when no value is selected
expectedTabStop ==
    IF rgValue # Null
    THEN { i \in DOMAIN radios : radios[i].value = rgValue }
    ELSE { i \in DOMAIN radios : radios[i].value = firstValid(radios) }

\* C12: in every reachable state of a radio group with at least one enabled
\* member, exactly one member has tabIndex 0: the selected member if a value
\* is selected, otherwise the first available member.
C12_ExactlyOneTabStop ==
    (\E i \in DOMAIN radios : ~radios[i].disabled) =>
        /\ Cardinality(tabStops(radios, radioGroup)) = 1
        /\ tabStops(radios, radioGroup) = expectedTabStop

(***************************************************************************)
(* Properties of the CheckGroup and of the Checkbox                        *)
(***************************************************************************)
\* C13: for any member x of a check group and any selection S, toggling x
\* twice returns the selection to S, and one toggle changes the membership
\* of x only.
C13_ToggleTwiceIsIdentity ==
    \A i \in DOMAIN checkboxes :
        LET x  == checkboxes[i]
            s1 == groupActivate(checkboxMode, cgValue, x)
            s2 == groupActivate(checkboxMode, s1, x)
        IN  /\ s2 = cgValue
            /\ s1 \ {x.value} = cgValue \ {x.value}
            /\ ~x.disabled => (x.value \in s1) # (x.value \in cgValue)

C13_Witness ==
    /\ checkEvent.kind = "group"
    /\ checkEvent.sawValue # {}
    /\ cgValue # checkEvent.sawValue
    /\ groupActivate(checkboxMode, cgValue, checkboxes[checkEvent.member])
           = checkEvent.sawValue

\* C14: an indeterminate checkbox is not counted as checked: its checked
\* render state is false, no hidden input is rendered for it and the stored
\* selection holds values only; activating it makes it checked.
C14_IndeterminateIsDisplayOnly ==
    /\ cgValue \subseteq { checkboxes[i].value : i \in DOMAIN checkboxes }
    /\ cbChecked = "indeterminate" =>
           /\ ~isChecked(cbChecked)
           /\ ~renderHiddenInput(cbProps, cbChecked)
           /\ ariaChecked(cbChecked) = "mixed"
           /\ checkActivate(checkboxMode, cbChecked) = "true"

C14_Witness ==
    /\ checkEvent.kind = "single"
    /\ checkEvent.sawChecked = "indeterminate"
    /\ cbChecked = "true"
    /\ cbProps = [name |-> TRUE, value |-> "given"]
    /\ renderHiddenInput(cbProps, cbChecked)

\* C15: a Radio in a RadioGroup or a Checkbox in a CheckGroup whose value
\* is absent or empty raises the configuration error at setup; the same
\* member outside a group raises nothing.
C15_MissingOrEmptyValueRaises ==
    cbMount.component # "none" =>
        (cbMount.outcome = "SystemError") <=>
            (cbMount.inGroup /\ cbMount.value \in {"absent", "empty"})

(***************************************************************************)
(* Properties of controlled and uncontrolled state                         *)
(***************************************************************************)
\* C16: on every mutation of the active tab or of the open state the change
\* callback is invoked before the value is stored: among the calls of a
\* handler the store never precedes the callback.
C16_CallbackBeforeStore ==
    \A i, j \in DOMAIN lastCalls :
        (lastCalls[i].call = "set" /\ lastCalls[j].call = "callback") => j < i

\* C17: a controlled TabGroup or Tooltip always has the external value as
\* its state, and when the owner does not update the external value a user
\* event leaves the state as it was.
C17_ControlledMirrorsExternal ==
    /\ useControlledProp(tgCtl) = tgCtl.prop
    /\ useControlledProp(ttCtl) = ttCtl.prop
    /\ ~tgCtl.feeds =>
           \A v \in TabValues :
               useControlledProp(runCalls(tgCtl, handleChange(v)))
                   = useControlledProp(tgCtl)
    /\ ~ttCtl.feeds =>
           \A o \in BOOLEAN :
               /\ useControlledProp(runCalls(ttCtl, emitOpenChange(o)))
                      = useControlledProp(ttCtl)
               /\ useControlledProp(runCalls(ttCtl, anchorClick(ttCtl)))
                      = useControlledProp(ttCtl)

C17_Witness ==
    /\ ~tgCtl.feeds
    /\ Len(lastCalls) = 2
    /\ lastCalls[2].widget = "TabGroup"
    /\ lastCalls[2].call = "callback"
    /\ lastCalls[2].arg # useControlledProp(tgCtl)
    /\ lastCalls[2].arg = useControlledProp(tgUnc)

\* C18: a controlled widget whose owner feeds every value of the change
\* callback back as the external value is, after any sequence of user
\* events, in the same state as the uncontrolled widget that was given the
\* same initial value and the same events.
C18_ControlledConvergesWithUncontrolled ==
    /\ tgCtl.feeds => useControlledProp(tgCtl) = useControlledProp(tgUnc)
    /\ ttCtl.feeds => useControlledProp(ttCtl) = useControlledProp(ttUnc)

C18_Witness ==
    /\ tgCtl.feeds /\ ttCtl.feeds
    /\ useControlledProp(tgCtl) # Null
    /\ useControlledProp(ttCtl)
    /\ Len(lastCalls) = 2
    /\ lastCalls[2].widget = "TabGroup"
    /\ lastCalls[2].arg = useControlledProp(tgCtl)
    /\ tgCtl.state # tgCtl.prop

(***************************************************************************)
(* Properties of opening the list and of a stale active descendant         *)
(***************************************************************************)
\* the element at which a list resumes: its first available selected
\* element, else its first available element, else none
ResumePoint(its) ==
    LET sel == { i \in 1 .. Len(its) :
                   AvailableElement(its[i]) /\ its[i].selected }
    IN  IF sel # {}
        THEN its[CHOOSE i \in sel : \A j \in sel : i <= j].id
        ELSE FirstAvailable(its)

\* C19: ArrowDown or ArrowUp on a closed list opens it, queries the
\* collection of the open list, and makes active the first available
\* element among the selected ones if there is one, otherwise the first
\* available element of the whole collection.
C19_OpenResumesAtSelection ==
    (selEvent.key \in {"DOWN", "UP"} /\ ~selEvent.wasOpen) =>
        /\ listOpenState
        /\ activeDescendant = ResumePoint(items)

\* ArrowUp opened the list at a selected element that is neither the first
\* nor the last available element of the collection.
C19_Witness ==
    /\ selEvent.key = "UP" /\ ~selEvent.wasOpen
    /\ listOpenState
    /\ Len(items) = 3
    /\ \A i \in 1 .. 3 : AvailableElement(items[i])
    /\ items[2].selected /\ ~items[1].selected
    /\ activeDescendant = items[2].id

\* C20: when the active descendant is no longer an element of the
\* collection, ArrowDown and ArrowUp on the open list make active what
\* they make active when there is no active descendant.
C20_StaleActiveTreatedAsNone ==
    (listOpenState /\ activeDescendant # Null
                   /\ activeDescendant \notin Ids(items)) =>
        /\ downNextActive(items, activeDescendant) = downNextActive(items, Null)
        /\ upNextActive(items, activeDescendant) = upNextActive(items, Null)

(***************************************************************************)
(* Properties of Home and End                                              *)
(***************************************************************************)
LastAvailable(its) ==
    IF AvailableIds(its) = {} THEN Null
    ELSE its[CHOOSE i \in 1 .. Len(its) :
                /\ AvailableElement(its[i])
                /\ \A j \in i + 1 .. Len(its) : ~AvailableElement(its[j])].id

\* C21: on an open list Home makes the lowest-index available element
\* active and End the highest-index available element, whatever the
\* previous active descendant was; the result is none only when no element
\* is available.
C21_HomeEndReachExtremes ==
    /\ (selEvent.key = "HOME" /\ selEvent.wasOpen)
           => activeDescendant = FirstAvailable(items)
    /\ (selEvent.key = "END" /\ selEvent.wasOpen)
           => activeDescendant = LastAvailable(items)

\* End, pressed with the first element active, skipped the unavailable last
\* element and stopped at the available one before it.
C21_Witness ==
    /\ selEvent.key = "END" /\ selEvent.wasOpen
    /\ Len(items) = 3
    /\ selEvent.prevActive = items[1].id
    /\ ~AvailableElement(items[3])
    /\ AvailableElement(items[2])
    /\ activeDescendant = items[2].id

(***************************************************************************)
(* Properties of typeahead and of navigation at the edges                  *)
(***************************************************************************)
ExampleItems ==
    <<TextElement(1, FALSE), TextElement(2, FALSE), TextElement(3, FALSE)>>

\* the case-folded text of an option begins with the buffer
FoldedPrefix(text, buf) ==
    /\ Len(buf) <= Len(text)
    /\ [i \in 1 .. Len(buf) |-> toLowerCase(text[i])] = buf

\* how far, in scan order, the 0-based index j lies after the active option
ScanDistance(its, active, j) ==
    (j - FindIndex(its, active) - 1 + Len(its)) % Len(its)

\* the option a buffer resolves to: among the available options whose
\* folded text begins with the buffer, the nearest in scan order
Resolved(its, active, buf) ==
    LET hits == { j \in 0 .. Len(its) - 1 :
                    /\ AvailableElement(its[j + 1])
                    /\ FoldedPrefix(its[j + 1].text, buf) }
    IN  IF hits = {} THEN active
        ELSE its[1 + CHOOSE j \in hits :
                       \A h \in hits : ScanDistance(its, active, j)
                                         <= ScanDistance(its, active, h)].id

RECURSIVE typeKeys(_, _, _)
\* the printable keys of a sequence typed one after the other, the reset
\* window never passing between them
typeKeys(its, s, keys) ==
    IF keys = << >> THEN s
    ELSE typeKeys(its, jumpToChar(its, s, Head(keys)), Tail(keys))

\* every printable key folds its character into the buffer and makes
\* active the option the buffer resolves to, or changes nothing
KeyResolvesBuffer ==
    \A key \in PrintableKeys :
        LET r == jumpToChar(taItems, TypeaheadState, key)
        IN  /\ r.buffer = Append(IF elapsed THEN << >> ELSE queryBuffer,
                                 toLowerCase(key))
            /\ r.active = Resolved(taItems, taActive, r.buffer)

\* C22 (as stated): typeahead is case-insensitive prefix matching with
\* wrap-around from just after the active option, and with the options
\* Apple, apricot, Banana and none active, typing "ap" makes Apple active
\* and typing "ap" again within the reset window makes apricot active.
C22_TypingApActivatesApple ==
    /\ KeyResolvesBuffer
    /\ (taItems = ExampleItems /\ taActive = Null /\ elapsed) =>
           LET s1 == typeKeys(taItems, TypeaheadState, <<"a", "p">>)
               s2 == typeKeys(taItems, s1, <<"a", "p">>)
           IN  s1.active = 1 /\ s2.active = 2

\* C22 (amended): typeahead is case-insensitive prefix matching with
\* wrap-around from just after the active option, a miss changing nothing;
\* with the options Apple, apricot, Banana, a key that completes the
\* buffer "ap" makes Apple active when none was active and apricot when
\* Apple was, so typing "a" and then "p" from none ends at apricot, and
\* typing "ap" again within the reset window matches nothing.
C22_TypeaheadResolvesBuffer ==
    /\ KeyResolvesBuffer
    /\ taItems = ExampleItems =>
           /\ jumpToChar(taItems, [active |-> Null, buffer |-> <<"a">>,
                                   elapsed |-> FALSE], "p").active = 1
           /\ jumpToChar(taItems, [active |-> 1, buffer |-> <<"a">>,
                                   elapsed |-> FALSE], "p").active = 2
    /\ (taItems = ExampleItems /\ taActive = Null /\ elapsed) =>
           LET s1 == typeKeys(taItems, TypeaheadState, <<"a", "p">>)
               s2 == typeKeys(taItems, s1, <<"a", "p">>)
           IN  s1.active = 2 /\ s2.active = 2

\* "A" and then "p" were typed with none active: Apple, then apricot.
C22_Witness ==
    /\ taItems = ExampleItems
    /\ queryBuffer = <<"a", "p">>
    /\ ~elapsed
    /\ taActive = 2

\* C23: with an empty collection or with every option unavailable, every
\* navigation key ends its search and leaves no active descendant; a
\* printable key that matches nothing leaves the active descendant as it
\* was; no search fails to complete.
C23_EdgeCasesCompleteNormally ==
    /\ \A key \in NavKeys : ~navSearch(taItems, taActive, key).diverged
    /\ AvailableIds(taItems) = {} =>
           /\ \A key \in NavKeys :
                  navSearch(taItems, taActive, key).item = Null
           /\ \A key \in PrintableKeys :
                  jumpToChar(taItems, TypeaheadState, key).active = Null
    /\ \A key \in PrintableKeys :
           LET r == jumpToChar(taItems, TypeaheadState, key)
           IN  (\A i \in 1 .. Len(taItems) :
                   ~FoldedPrefix(taItems[i].text, r.buffer))
                   => r.active = taActive

\* "b" and then "p" were typed with Apple active and Banana disabled:
\* nothing matched and Apple is still active.
C23_Witness ==
    /\ Len(taItems) = 3
    /\ taActive = 1
    /\ queryBuffer = <<"b", "p">>
    /\ \E i \in 1 .. 3 : taItems[i].id = 3 /\ taItems[i].disabled

(***************************************************************************)
(* Properties of focus visibility                                          *)
(***************************************************************************)
\* C24 (as stated): between the focus event of a thumb and its next blur,
\* focusedVisible is what the focus event decided, whatever else happens,
\* the thumb becoming disabled included.
C24_DecidedOnceAtFocus ==
    \A n \in ThumbNames :
        thumbs[n].focused =>
            thumbs[n].isFocusedVisible = thumbHistory[n].atFocus

\* C24 (amended): between the focus event of a thumb and its next blur,
\* focusedVisible is what the focus event decided, unless the thumb was
\* rendered disabled at the focus event or in between, which makes it
\* false.
C24_DecidedAtFocusUnlessDisabled ==
    \A n \in ThumbNames :
        thumbs[n].focused =>
            IF thumbHistory[n].disabledSince
            THEN ~thumbs[n].isFocusedVisible
            ELSE thumbs[n].isFocusedVisible = thumbHistory[n].atFocus

\* a thumb focused from the keyboard was disabled and enabled again
\* while it held the focus
C24_Witness ==
    \E n \in ThumbNames :
        /\ thumbs[n].focused /\ ~thumbs[n].disabled
        /\ thumbHistory[n].atFocus
        /\ thumbHistory[n].disabledSince
        /\ ~thumbs[n].isFocusedVisible

\* C25 (as stated): after the blur of an enabled thumb, focusedVisible is
\* the value it had before the preceding focus event, for thumbs mounted
\* with autoFocus too.
C25_BlurRestoresPrevious ==
    \A n \in ThumbNames :
        thumbHistory[n].last = "blur" =>
            thumbs[n].isFocusedVisible = thumbHistory[n].before

\* C25 (amended): after the blur of an enabled thumb, focusedVisible is
\* false, whatever the origin of the focus; that is the value before the
\* focus event except for a thumb mounted with autoFocus, which was
\* focus-visible from its mount.
C25_BlurResetsToFalse ==
    \A n \in ThumbNames :
        thumbHistory[n].last = "blur" => ~thumbs[n].isFocusedVisible

\* a thumb mounted with autoFocus has lost the focus
C25_Witness ==
    \E n \in ThumbNames :
        /\ thumbHistory[n].last = "blur"
        /\ thumbHistory[n].before
        /\ ~thumbs[n].focused
        /\ ~thumbs[n].isFocusedVisible

(***************************************************************************)
(* Properties of the snackbar's timer                                      *)
(***************************************************************************)
\* C26: the auto-dismiss timer is cancelled on close and on unmount:
\* onDurationEnd is never invoked while the snackbar is closed or
\* unmounted, a timer is scheduled only while the snackbar is mounted and
\* open, and at most one timer is scheduled at any time.
C26_TimerCancelledOnCloseAndUnmount ==
    /\ snInvokedWhile \in {"never", "open"}
    /\ Cardinality(snPending) <= 1
    /\ snPending # {} => snMounted /\ snProps.open

\* onDurationEnd was invoked in an earlier open period, and the timer of
\* the last open period was cancelled by the close before it fired
C26_Witness ==
    /\ snInvokedWhile = "open"
    /\ snMounted /\ ~snProps.open
    /\ timeoutRef # NaN
    /\ snFired = 0
    /\ snPending = {}

\* C27 (as stated): whenever the snackbar is open with a duration and an
\* onDurationEnd, mounted open included, and stays open and mounted,
\* onDurationEnd is eventually invoked.  It is stated here for the case
\* that favours it, useOnChange reporting the initial value of open, so
\* that a snackbar mounted open does get its timer.
C27_DurationEndEventuallyInvoked ==
    (changeOnMount /\ snMounted /\ snProps.open /\ snProps.timed /\ snFired = 0)
        ~> (snFired > 0 \/ ~snMounted \/ ~snProps.open \/ ~snProps.timed)

(***************************************************************************)
(* Properties of the Tooltip's callback                                    *)
(***************************************************************************)
\* the calls each event that can reach the Tooltip w now would make
tooltipEventCalls(w) ==
    (IF behavior = "open-on-click" THEN {anchorClick(w), escapeKeyUp(w)}
     ELSE {emitOpenChange(TRUE), emitOpenChange(FALSE)})

\* C28 (as stated): onOpenChange is invoked only with a value that differs
\* from the open state at the time of the event, so never with the value
\* the tooltip already has.
C28_CallbackOnlyOnChange ==
    \A w \in {ttCtl, ttUnc} :
        \A calls \in tooltipEventCalls(w) :
            \A i \in DOMAIN calls :
                calls[i].call = "callback" => calls[i].arg # useControlledProp(w)

(***************************************************************************)
(* Properties of the keyboard activation of tabs                           *)
(***************************************************************************)
\* the TabGroup's owner lets the active tab follow its requests
FollowsRequests(g) == ~g.controlled \/ g.feeds

\* C29: with keyboardActivationBehavior "manual" a navigation key (arrow,
\* Home, End) moves the focus only: no call is made on the TabGroup and
\* the active tab is unchanged.  With "automatic", a navigation key that
\* moves the focus activates the newly focused tab: onChange is called
\* with it, and the active tab equals it (under an owner of a controlled
\* TabGroup that ignores onActiveTabChange the active tab is the owner's).
C29_KeyboardActivation ==
    \A key \in TabNavCases :
        LET r == tabKeyDown(tkTabs, tkFocus, tkGroup,
                            keyboardActivationBehavior, key)
        IN  /\ keyboardActivationBehavior = "manual" =>
                   /\ r.calls = << >>
                   /\ useControlledProp(r.group) = useControlledProp(tkGroup)
            /\ keyboardActivationBehavior = "automatic" /\ r.focus # tkFocus =>
                   /\ r.calls = handleChange(r.focus)
                   /\ FollowsRequests(tkGroup) =>
                          useControlledProp(r.group) = r.focus
            /\ r.focus \in TabIndexes(tkTabs)

\* in an automatic TabGroup with a tab that is not enabled, the focused
\* tab is the active one and a key moves the focus and the active tab to
\* another tab
C29_Witness ==
    /\ keyboardActivationBehavior = "automatic"
    /\ useControlledProp(tkGroup) = tkFocus
    /\ \E key \in TabNavCases :
           LET r == tabKeyDown(tkTabs, tkFocus, tkGroup,
                               keyboardActivationBehavior, key)
           IN  /\ r.focus # tkFocus
               /\ useControlledProp(r.group) = r.focus
               /\ \E j \in 1 .. Len(tkTabs) : tkTabs[j] # "enabled"

(***************************************************************************)
(* Properties of the advisory warnings                                     *)
(***************************************************************************)
\* C30 (as stated): a Checkbox inside a CheckGroup that is given a
\* redundant name, checked or defaultChecked has the same checked state,
\* the same effective form name and the same hidden form value as the same
\* Checkbox without these props; the props only log a warning.
C30_WarningsDoNotAlterBehaviour ==
    \A i \in DOMAIN checkboxes, ctxName \in {"absent", "group"},
       props \in MemberProps :
        LET with    == groupMemberRender(ctxName, cgValue, checkboxes[i], props)
            without == groupMemberRender(ctxName, cgValue, checkboxes[i],
                                         NoMemberProps)
        IN  /\ with.checked = without.checked
            /\ with.name = without.name
            /\ with.hidden = without.hidden

\* C39: a disabled thumb never reports focus-visible: mounted disabled
\* with autoFocus, become disabled while focus-visible, or focused while
\* disabled, its isFocusedVisible is false.
C39_DisabledNeverFocusVisible ==
    \A n \in ThumbNames : thumbs[n].disabled => ~thumbs[n].isFocusedVisible

\* a thumb focused from the keyboard became disabled while it held the
\* focus, and the other thumb is disabled too
C39_Witness ==
    \E n \in ThumbNames :
        /\ thumbs[n].disabled /\ thumbs[n].focused
        /\ thumbHistory[n].last = "focus" /\ thumbHistory[n].atFocus
        /\ thumbHistory[n].disabledSince
        /\ \A k \in ThumbNames : thumbs[k].disabled

(***************************************************************************)
(* Properties of the arrow navigation of tabs                              *)
(***************************************************************************)
\* the key that means "next" and the key that means "previous"
NextKey ==
    IF orientation = "vertical" THEN "ArrowDown"
    ELSE IF tkDir = "ltr" THEN "ArrowRight" ELSE "ArrowLeft"

PrevKey ==
    IF orientation = "vertical" THEN "ArrowUp"
    ELSE IF tkDir = "ltr" THEN "ArrowLeft" ELSE "ArrowRight"

CrossAxisKeys ==
    IF orientation = "vertical" THEN {"ArrowLeft", "ArrowRight"}
    ELSE {"ArrowUp", "ArrowDown"}

\* the nearest enabled tab k steps after (step = 1) or before (step = -1)
\* the tab at index, going round
Nearest(step) ==
    LET len  == Len(tkTabs)
        at(k) == (tkFocus + step * k + len * len) % len
        k0   == CHOOSE k \in 1 .. len :
                    /\ at(k) \in TabIndexes(tkTabs)
                    /\ \A j \in 1 .. k - 1 : at(j) \notin TabIndexes(tkTabs)
    IN  at(k0)

FocusAfter(key) ==
    tabKey(tkTabs, tkFocus, tkGroup, keyboardActivationBehavior,
           orientation, tkDir, key).focus

\* C31: the next key moves the focus to the nearest following enabled
\* tab, going round from the last to the first, the previous key to the
\* nearest preceding one; no key focuses a tab that is not enabled, and
\* the arrow keys of the other axis move nothing.
C31_ArrowNavigation ==
    /\ FocusAfter(NextKey) = Nearest(1)
    /\ FocusAfter(PrevKey) = Nearest(-1)
    /\ \A key \in TabKeys : FocusAfter(key) \in TabIndexes(tkTabs)
    /\ \A key \in CrossAxisKeys :
           tabKey(tkTabs, tkFocus, tkGroup, keyboardActivationBehavior,
                  orientation, tkDir, key)
               = [focus |-> tkFocus, calls |-> << >>, group |-> tkGroup]

\* a right-to-left horizontal TabGroup whose last tab is focused and
\* whose first tab is disabled: the next key goes round past it
C31_Witness ==
    /\ orientation = "horizontal" /\ tkDir = "rtl"
    /\ Len(tkTabs) = MaxItems
    /\ tkFocus = Len(tkTabs) - 1
    /\ tkTabs[1] = "disabled"
    /\ FocusAfter("ArrowLeft") = 1
    /\ FocusAfter("ArrowRight") = 1

(***************************************************************************)
(* Properties of the forced tab stop of a group                            *)
(***************************************************************************)
\* C32 (as stated): in every settled state forcedTabability is none when a
\* member is active, and when none is active it is the entity of the first
\* member that is not disabled (none if all are), also after members are
\* enabled or disabled while none is active.
C32_ForcedTababilityFollowsMembers ==
    /\ rgValue # Null => forcedTabability = Null
    /\ rgValue = Null => forcedTabability = firstValid(radios)

\* the open state of the Tooltip w after an event and the render that
\* follows it
OpenAfter(w, event) ==
    useControlledProp(runCalls(w, tooltipListeners(w, event)))

\* C33: with "open-on-click" a click on the anchor toggles the open state
\* and an Escape keyup while open closes it; with "open-on-hover"
\* mouseenter opens and mouseleave closes, and neither a click nor Escape
\* changes the open state or makes any call.  (For a controlled Tooltip
\* whose owner ignores onOpenChange the open state is the owner's.)
C33_TriggerBehaviour ==
    \A w \in {ttCtl, ttUnc} :
        LET open == useControlledProp(w)
        IN  /\ behavior = "open-on-click" /\ FollowsRequests(w) =>
                   /\ OpenAfter(w, "click") = ~open
                   /\ open => ~OpenAfter(w, "Escape")
            /\ behavior = "open-on-click" =>
                   /\ tooltipListeners(w, "click") = emitOpenChange(~open)
                   /\ open => tooltipListeners(w, "Escape") = emitOpenChange(FALSE)
            /\ behavior = "open-on-hover" /\ FollowsRequests(w) =>
                   /\ OpenAfter(w, "mouseenter")
                   /\ ~OpenAfter(w, "mouseleave")
            /\ behavior = "open-on-hover" =>
                   /\ tooltipListeners(w, "click") = << >>
                   /\ tooltipListeners(w, "Escape") = << >>
                   /\ OpenAfter(w, "click") = open
                   /\ OpenAfter(w, "Escape") = open

\* both Tooltips have been opened by mouseenter, so that a click or an
\* Escape could close them
C33_Witness ==
    /\ behavior = "open-on-hover"
    /\ lastCalls = emitOpenChange(TRUE)
    /\ useControlledProp(ttUnc) /\ useControlledProp(ttCtl)
    /\ ttCtl.feeds

(***************************************************************************)
(* Properties of closing a menu                                            *)
(***************************************************************************)
\* C38 (as stated): once the root menu has been closed and its effects
\* have run, its activeElement is none, isMenuActive is false and
\* activeSubTrigger is none, whatever state it was closed from.
C38_CloseReturnsToClosed ==
    ~rootOpen =>
        /\ menus[1].activeElement = Null
        /\ ~menus[1].isMenuActive
        /\ menus[1].activeSubTrigger = Null

(***************************************************************************)
(* Properties of shouldActivateKeyboardNavigation                          *)
(***************************************************************************)
\* C34 (as stated): while the root menu is given
\* shouldActivateKeyboardNavigation = false, no keydown event changes its
\* activeElement, activeSubTrigger or isMenuActive, none opens or closes
\* its submenu, and none invokes onEscape.
C34_KeyboardNavigationOff ==
    \A key \in MenuKeys :
        LET r == keyDownResultWith(FALSE, key)
        IN  /\ r[1].activeElement = menus[1].activeElement
            /\ r[1].activeSubTrigger = menus[1].activeSubTrigger
            /\ r[1].isMenuActive = menus[1].isMenuActive
            /\ key = "Escape" => ~onEscapeInvokedWith(FALSE)

\* C35: while the combobox is disabled or read-only no keydown calls
\* onActiveDescendantChange or onListOpenChange or changes the state, and
\* while it is disabled no click, focus, blur or query change alters
\* focusedVisible or the filtered entities
C35_GuardedWhileDisabledOrReadOnly ==
    /\ (cbx.disabled \/ cbx.readOnly) =>
           \A key \in ComboKeys :
               LET r == comboKeyDown(cbx, key)
               IN  /\ r.state = cbx
                   /\ r.calls \cap {"onActiveDescendantChange",
                                    "onListOpenChange"} = {}
    /\ cbx.disabled =>
           /\ handleClick(cbx) = {}
           /\ \A origin \in FocusOrigins : thumbHandleFocus(cbx, origin) = cbx
           /\ thumbHandleBlur(cbx) = cbx
           /\ \A query \in Queries : handleQueryChange(cbx, query) = cbx

\* a read-only, enabled, focused-visible combobox whose list is closed over a
\* collection with options, and a disabled one with a filter in effect
C35_Witness ==
    \/ /\ cbx.readOnly /\ ~cbx.disabled /\ ~cbx.open /\ cbx.isFocusedVisible
       /\ cbx.options # {}
    \/ /\ cbx.disabled /\ cbx.searchable /\ cbx.open
       /\ ~cbx.filteredNull /\ cbx.filtered # {}

\* C36: closing the list of a searchable combobox resets the filter to null
\* and empties the cached snapshot, and a filter result computed while the
\* list is open holds only entities present at or after the reopen
C36_CacheInvalidatedByOpenClose ==
    (cbx.searchable /\ cbx.open) =>
        /\ LET s == listOpenChanged(cbx, FALSE)
           IN  s.filteredNull /\ s.cache = {}
        /\ (~cbx.disabled /\ ~cbx.readOnly) =>
               \A query \in Queries :
                   handleQueryChange(cbx, query).filtered \subseteq sinceReopen

\* C37: the group's hidden is what the filter and the group's options give,
\* in every state
C37_GroupHiddenFollowsFilter ==
    cbx.hidden = groupIsHidden(cbx.filteredNull, cbx.filtered, cbx.options)

=============================================================================
